---- MODULE Spec2Model ----
(***************************************************************************)
(* A model of the photo-memory-to-video core of daily-diary:               *)
(*   server/photo_memory_storage.py   PhotoMemoryStorage                   *)
(*   server/user_message_processor.py the upload handler calling add_photo *)
(*   server/storyboard.py             StoryboardGenerator                  *)
(*   server/caption_generator.py      CaptionGenerator                     *)
(*   server/frame_creator.py          FrameCreator                         *)
(* Each component has a specification of its own over the shared variable  *)
(* list; a specification leaves the other components' variables alone.     *)
(***************************************************************************)
EXTENDS Integers, Sequences, FiniteSets, TLC

(***************************************************************************)
(* Bounds of the model.                                                    *)
(***************************************************************************)
\* distinct pixel contents an uploaded image can have
NumContents == 2
\* feelings stored in the whole store before add_feeling is no longer called
MaxFeelings == 3

\* coroutines that upload photos at the same time
NumCallers == 2
\* uploads the coroutines take on between them before they stop
MaxUploads == 3

\* sentences of a conversation transcript
MaxSentences == 3
\* how many scenes captions are asked for
MaxSceneCount == 6
\* how many lines the response of the model has
MaxLines == 2
\* how many captions the renderer is given
MaxCaptions == 3
\* how many photos a session takes in
MaxPhotos == 2
\* how many frame paths and scenes create_memory_video is called with
MaxFrames == 4

(***************************************************************************)
(* Values.                                                                 *)
(***************************************************************************)
Formats == {"PNG", "JPEG"}

\* A PIL image: its decoded pixel data and the container it was opened from.
\* Every content comes as a PNG upload; the first also as a JPEG upload
\* that decodes to the same pixels.
Images == [pixels : 1..NumContents, format : {"PNG"}]
              \cup [pixels : {1}, format : Formats]

FeelingTexts == {"happy", "nostalgic"}

\* user_id: Optional[str] = None; the callers of add_feeling pass none.
NoUser == "None"

\* Python's None, as a photo name
NoName == <<"None", 0>>

\* the value of a call record where no call is recorded
NoCall == [op |-> "none"]

\* the coroutines that call add_photo: the upload handler and tasks of the
\* conversational pipeline
Callers == 1..NumCallers

\* the lock when nobody holds it
NoCaller == 0

\* a coroutine's locals before it has any
NoLocal == [upload |-> 0, image |-> "None", image_hash |-> "None",
            photo_name |-> NoName]

VARIABLES
    \* PhotoMemoryStorage: self._photos, self._photo_queue,
    \* self._hash_to_name, self._counter
    photos, photo_queue, hash_to_name, counter,
    \* observation: the last call made on the store, its arguments, what it
    \* returned and what the store answered just before it
    last,
    \* observation: for each name add_photo created since the last
    \* clear_all, the texts of the add_feeling calls that returned True for
    \* it, in arrival order
    arrived,
    \* observation: the <<name, hash>> of the add_photo calls that returned
    \* is_new = True since the last clear_all, in call order
    created,
    \* observation: the names pop_next_photo returned since the last
    \* clear_all, in call order
    popped,
    \* observation: for each name, the hash it had when add_photo returned
    \* it with is_new = True for the first time since construction
    first_issued,
    \* self._lock: the caller that holds it, or NoCaller
    lock,
    \* each uploading coroutine: where it is in _handle_photo_download and
    \* add_photo and its locals (image, image_hash, photo_name); how many
    \* uploads the coroutines have taken on
    pc, local, uploads,
    \* observation: what the add_photo calls of the coroutines returned
    returns,
    \* the orchestrator's self._conversation_transcript and the response of
    \* its latest analysis; the scenes generate_from_conversation returned
    \* for them, and whether it has been called
    transcript, photo_analysis, scenes, sb_pc,
    \* CaptionGenerator.generate_captions_for_scenes: len(scenes), the text
    \* of the response, the captions returned, and where the call is
    cap_n, response_text, captions, cap_pc,
    \* FrameCreator.create_captioned_frames: its argument, the index of the
    \* loop, frame_paths, the files of the temporary directory, what the
    \* call returned, where it is, and the caption a failure happened at
    fr_captions, fr_i, frame_paths, disk, fr_returned, fr_pc, failed_at,
    \* ReceiveUserMessage, one per session: self._downloaded_images and
    \* self._image_analyses; where its _handle_photo_download is; how often
    \* the vision model was called for the photo at hand, and what
    \* analyze_and_respond returned for it; the file_key its
    \* _handle_photo_download was called with
    downloaded_images, image_analyses, an_pc, model_calls, an_returned, an_key,
    \* the temporary directory of the process: for each file in it, the
    \* session that wrote it last; and what is in the input list file
    tmp, input_list,
    \* VideoGenerator.create_memory_video, one call per session at a time:
    \* where it is, its arguments, frame_paths and scenes after they were
    \* cut, what it returned, what it wrote into the input list, how its
    \* steps ended and how often each was started
    asm_pc, asm_args, asm_frames, asm_scenes, asm_result, asm_list, asm_steps,
    asm_calls,
    \* observation: the files the call has written
    asm_wrote,
    \* ReceiveUserMessage._handle_video_generation_request, one run per
    \* session at a time: where it is, its scenes and its frame_paths
    g_pc, g_scenes, g_frames,
    \* observation: whether there was an image and an analysis when the run
    \* began, the stages it has started, the outcomes it has reported, the
    \* frame files it has written and the caption its renderer failed at
    \* (0: it did not fail, -1: it failed before the first caption)
    g_had, g_stages, g_outcomes, g_written, g_failed_at

storeVars == <<photos, photo_queue, hash_to_name, counter>>
obsVars == <<last, arrived, created, popped, first_issued>>
callerVars == <<lock, pc, local, uploads, returns>>
storyVars == <<transcript, photo_analysis, scenes, sb_pc>>
captionVars == <<cap_n, response_text, captions, cap_pc>>
frameVars == <<fr_captions, fr_i, frame_paths, disk, fr_returned, fr_pc, failed_at>>
analysisVars == <<downloaded_images, image_analyses, an_pc, model_calls, an_returned,
                  an_key>>
tmpVars == <<tmp, input_list>>
asmVars == <<asm_pc, asm_args, asm_frames, asm_scenes, asm_result, asm_list,
             asm_steps, asm_calls, asm_wrote>>
runVars == <<g_pc, g_scenes, g_frames, g_had, g_stages, g_outcomes, g_written,
             g_failed_at>>
\* the variables of the sessions
sessionVars == <<analysisVars, tmpVars, asmVars, runVars>>
vars == <<photos, photo_queue, hash_to_name, counter,
          last, arrived, created, popped, first_issued,
          lock, pc, local, uploads, returns,
          transcript, photo_analysis, scenes, sb_pc,
          cap_n, response_text, captions, cap_pc,
          fr_captions, fr_i, frame_paths, disk, fr_returned, fr_pc, failed_at,
          downloaded_images, image_analyses, an_pc, model_calls, an_returned,
          an_key,
          tmp, input_list,
          asm_pc, asm_args, asm_frames, asm_scenes, asm_result, asm_list,
          asm_steps, asm_calls, asm_wrote,
          g_pc, g_scenes, g_frames, g_had, g_stages, g_outcomes, g_written,
          g_failed_at>>

\* the variables the calls made one at a time leave alone
StoreRest == <<callerVars, storyVars, captionVars, frameVars, sessionVars>>
\* the variables the uploading coroutines leave alone
UploadRest == <<obsVars, storyVars, captionVars, frameVars, sessionVars>>
\* the variables the storyboard generator leaves alone
StoryRest == <<storeVars, obsVars, callerVars, captionVars, frameVars, sessionVars>>
\* the variables the caption generator leaves alone
CaptionRest == <<storeVars, obsVars, callerVars, storyVars, frameVars, sessionVars>>
\* the variables the frame creator leaves alone
FrameRest == <<storeVars, obsVars, callerVars, storyVars, captionVars, sessionVars>>
\* the variables of the components that are called one at a time
ComponentVars == <<storeVars, obsVars, callerVars, storyVars, captionVars, frameVars>>
\* the variables the handling of a photo leaves alone
AnalysisRest == <<ComponentVars, tmpVars, asmVars, runVars>>
\* the variables create_memory_video leaves alone
AssemblerRest == <<ComponentVars, analysisVars, runVars>>

(***************************************************************************)
(* PhotoMemoryStorage                                                      *)
(***************************************************************************)

\* f"image_{self._counter}"
PhotoName(n) == <<"image", n>>

\* the names a caller may pass: every name the store can hold and one
\* (the last) that it never holds
CallerNames == {PhotoName(n) : n \in 0..NumContents}

\* _calculate_image_hash: the image is re-encoded as PNG and the bytes are
\* digested, so the digest depends on the pixel data and not on the
\* container the upload came in.
ImageHash(image) == <<"sha256", image.pixels>>

\* the store as a value: what an operation reads and what it leaves
Store(p, q, h, c) == [photos |-> p, queue |-> q, hash_to_name |-> h, counter |-> c]

TheStore == Store(photos, photo_queue, hash_to_name, counter)

\* __init__
EmptyStore == Store(<<>>, <<>>, <<>>, 0)

\* photo_data of add_photo. file_path, original_file_key, size and
\* created_at are stored and never read by the store; the image carries
\* its format.
PhotoData(photo_name, image, image_hash) ==
    [photo_name |-> photo_name, image |-> image, hash |-> image_hash,
     feelings |-> <<>>]

\* add_photo with a counter that is not advanced
add_photo_SameCounter(s, image) ==
    LET image_hash == ImageHash(image) IN
    IF image_hash \in DOMAIN s.hash_to_name
    THEN [store |-> s, name |-> s.hash_to_name[image_hash], is_new |-> FALSE]
    ELSE LET photo_name == PhotoName(s.counter) IN
         [store |-> Store(
              [n \in DOMAIN s.photos \cup {photo_name} |->
                  IF n = photo_name
                  THEN PhotoData(photo_name, image, image_hash)
                  ELSE s.photos[n]],
              Append(s.queue, photo_name),
              [h \in DOMAIN s.hash_to_name \cup {image_hash} |->
                  IF h = image_hash THEN photo_name ELSE s.hash_to_name[h]],
              s.counter),
          name |-> photo_name, is_new |-> TRUE]

\* add_photo without the lookup of the hash
add_photo_NoDedup(s, image) ==
    LET image_hash == ImageHash(image) IN
         LET photo_name == PhotoName(s.counter) IN
         [store |-> Store(
              [n \in DOMAIN s.photos \cup {photo_name} |->
                  IF n = photo_name
                  THEN PhotoData(photo_name, image, image_hash)
                  ELSE s.photos[n]],
              Append(s.queue, photo_name),
              [h \in DOMAIN s.hash_to_name \cup {image_hash} |->
                  IF h = image_hash THEN photo_name ELSE s.hash_to_name[h]],
              s.counter + 1),
          name |-> photo_name, is_new |-> TRUE]

\* add_photo that appends the name to the queue for a duplicate as well
add_photo_Requeue(s, image) ==
    LET image_hash == ImageHash(image) IN
    IF image_hash \in DOMAIN s.hash_to_name
    THEN [store |-> [s EXCEPT !.queue = Append(@, s.hash_to_name[image_hash])],
          name |-> s.hash_to_name[image_hash], is_new |-> FALSE]
    ELSE LET photo_name == PhotoName(s.counter) IN
         [store |-> Store(
              [n \in DOMAIN s.photos \cup {photo_name} |->
                  IF n = photo_name
                  THEN PhotoData(photo_name, image, image_hash)
                  ELSE s.photos[n]],
              Append(s.queue, photo_name),
              [h \in DOMAIN s.hash_to_name \cup {image_hash} |->
                  IF h = image_hash THEN photo_name ELSE s.hash_to_name[h]],
              s.counter + 1),
          name |-> photo_name, is_new |-> TRUE]

\* add_photo, the body under the lock: the store it leaves and the
\* (photo_name, is_new) it returns
add_photo(s, image) ==
    LET image_hash == ImageHash(image) IN
    IF image_hash \in DOMAIN s.hash_to_name
    THEN [store |-> s, name |-> s.hash_to_name[image_hash], is_new |-> FALSE]
    ELSE LET photo_name == PhotoName(s.counter) IN
         [store |-> Store(
              [n \in DOMAIN s.photos \cup {photo_name} |->
                  IF n = photo_name
                  THEN PhotoData(photo_name, image, image_hash)
                  ELSE s.photos[n]],
              Append(s.queue, photo_name),
              [h \in DOMAIN s.hash_to_name \cup {image_hash} |->
                  IF h = image_hash THEN photo_name ELSE s.hash_to_name[h]],
              s.counter + 1),
          name |-> photo_name, is_new |-> TRUE]

\* feeling_entry of add_feeling; the timestamp is not modelled
FeelingEntry(feeling, user_id) == [feeling |-> feeling, user_id |-> user_id]

\* add_feeling that puts the new entry in front of the list
add_feeling_Prepend(s, photo_name, feeling, user_id) ==
    IF photo_name \notin DOMAIN s.photos
    THEN [store |-> s, ok |-> FALSE]
    ELSE [store |-> [s EXCEPT !.photos[photo_name].feelings =
                         <<FeelingEntry(feeling, user_id)>> \o @],
          ok |-> TRUE]

\* add_feeling that creates the entry of a name it does not know
add_feeling_Create(s, photo_name, feeling, user_id) ==
    IF photo_name \notin DOMAIN s.photos
    THEN [store |-> [s EXCEPT !.photos =
                [n \in DOMAIN s.photos \cup {photo_name} |->
                    IF n = photo_name
                    THEN [PhotoData(photo_name, [pixels |-> 1, format |-> "PNG"],
                                    <<"sha256", 0>>)
                           EXCEPT !.feelings = <<FeelingEntry(feeling, user_id)>>]
                    ELSE s.photos[n]]],
          ok |-> TRUE]
    ELSE [store |-> [s EXCEPT !.photos[photo_name].feelings =
                         Append(@, FeelingEntry(feeling, user_id))],
          ok |-> TRUE]

\* add_feeling, the body under the lock
add_feeling(s, photo_name, feeling, user_id) ==
    IF photo_name \notin DOMAIN s.photos
    THEN [store |-> s, ok |-> FALSE]
    ELSE [store |-> [s EXCEPT !.photos[photo_name].feelings =
                         Append(@, FeelingEntry(feeling, user_id))],
          ok |-> TRUE]

\* get_feelings(photo_name)
get_feelings(s, photo_name) ==
    IF photo_name \in DOMAIN s.photos THEN s.photos[photo_name].feelings ELSE <<>>

\* pop_next_photo that takes the newest name (deque.pop)
pop_next_photo_Newest(s) ==
    IF s.queue = <<>>
    THEN [store |-> s, name |-> NoName]
    ELSE [store |-> [s EXCEPT !.queue = SubSeq(@, 1, Len(@) - 1)],
          name |-> s.queue[Len(s.queue)]]

\* pop_next_photo that drops the name behind the one it returns
pop_next_photo_Drop(s) ==
    IF s.queue = <<>>
    THEN [store |-> s, name |-> NoName]
    ELSE [store |-> [s EXCEPT !.queue = IF Len(@) > 1 THEN Tail(Tail(@)) ELSE <<>>],
          name |-> Head(s.queue)]

\* pop_next_photo: popleft, and None for the IndexError of an empty deque
pop_next_photo(s) ==
    IF s.queue = <<>>
    THEN [store |-> s, name |-> NoName]
    ELSE [store |-> [s EXCEPT !.queue = Tail(@)], name |-> Head(s.queue)]

\* is_duplicate(image)
is_duplicate(s, image) == ImageHash(image) \in DOMAIN s.hash_to_name

RECURSIVE SumFeelings(_, _)
SumFeelings(p, S) ==
    IF S = {} THEN 0
    ELSE LET n == CHOOSE x \in S : TRUE
         IN Len(p[n].feelings) + SumFeelings(p, S \ {n})

\* get_stats()
get_stats(s) ==
    [total_photos   |-> Cardinality(DOMAIN s.photos),
     total_feelings |-> SumFeelings(s.photos, DOMAIN s.photos),
     queue_length   |-> Len(s.queue),
     unique_hashes  |-> Cardinality(DOMAIN s.hash_to_name)]

\* clear_all that leaves the map of the hashes as it is
clear_all_KeepHashes(s) == Store(<<>>, <<>>, s.hash_to_name, 0)

\* clear_all that leaves the counter as it is
clear_all_KeepCounter(s) == Store(<<>>, <<>>, <<>>, s.counter)

\* clear_all, the body under the lock
clear_all(s) == Store(<<>>, <<>>, <<>>, 0)

(***************************************************************************)
(* The store driven by one caller at a time: each action is one call.      *)
(* No operation awaits while it holds the lock, so a call's body runs      *)
(* from acquire to return without another coroutine in between.            *)
(***************************************************************************)

StoreInit ==
    /\ photos = EmptyStore.photos
    /\ photo_queue = EmptyStore.queue
    /\ hash_to_name = EmptyStore.hash_to_name
    /\ counter = EmptyStore.counter

SetStore(s) ==
    /\ photos' = s.photos
    /\ photo_queue' = s.queue
    /\ hash_to_name' = s.hash_to_name
    /\ counter' = s.counter

ObsInit ==
    /\ last = NoCall
    /\ arrived = <<>>
    /\ created = <<>>
    /\ popped = <<>>
    /\ first_issued = <<>>

\* no coroutine is uploading
CallersIdle ==
    /\ lock = NoCaller
    /\ pc = [c \in Callers |-> "idle"]
    /\ local = [c \in Callers |-> NoLocal]
    /\ uploads = 0
    /\ returns = {}

\* no conversation yet: bot.py, self._conversation_transcript = ""
StoryIdle ==
    /\ transcript = <<>>
    /\ photo_analysis = <<>>
    /\ scenes = <<>>
    /\ sb_pc = "talking"

\* no captions asked for yet
CaptionIdle ==
    /\ cap_n = 0
    /\ response_text = <<>>
    /\ captions = <<>>
    /\ cap_pc = "idle"

\* no frames asked for yet, and no file of this process on the disk
FrameIdle ==
    /\ fr_captions = <<>>
    /\ fr_i = 0
    /\ frame_paths = <<>>
    /\ disk = <<>>
    /\ fr_returned = <<>>
    /\ fr_pc = "idle"
    /\ failed_at = 0

\* the sessions that run in one process
Sessions == {1, 2}

\* ReceiveUserMessage.__init__, for each session
AnalysisIdle ==
    /\ downloaded_images = [r \in Sessions |-> <<>>]
    /\ image_analyses = [r \in Sessions |-> <<>>]
    /\ an_pc = [r \in Sessions |-> "idle"]
    /\ model_calls = [r \in Sessions |-> 0]
    /\ an_returned = [r \in Sessions |-> [kind |-> "none", response |-> <<"None">>]]
    /\ an_key = [r \in Sessions |-> "None"]

\* None, where a URL is expected
NoUrl == <<"None">>

\* no step of create_memory_video has ended, none was started
NoSteps == [encoder |-> "none", upload |-> "none", url |-> "none"]

NoCalls == [encoder |-> 0, upload |-> 0, url |-> 0]

\* no file in the temporary directory, no call of create_memory_video
AssemblerIdle ==
    /\ tmp = <<>>
    /\ input_list = <<>>
    /\ asm_pc = [r \in Sessions |-> "idle"]
    /\ asm_args = [r \in Sessions |-> [frame_paths |-> <<>>, scenes |-> <<>>]]
    /\ asm_frames = [r \in Sessions |-> <<>>]
    /\ asm_scenes = [r \in Sessions |-> <<>>]
    /\ asm_result = [r \in Sessions |-> NoUrl]
    /\ asm_list = [r \in Sessions |-> <<>>]
    /\ asm_steps = [r \in Sessions |-> NoSteps]
    /\ asm_calls = [r \in Sessions |-> NoCalls]
    /\ asm_wrote = [r \in Sessions |-> {}]

\* no run of _handle_video_generation_request yet
RunsIdle ==
    /\ g_pc = [r \in Sessions |-> "idle"]
    /\ g_scenes = [r \in Sessions |-> <<>>]
    /\ g_frames = [r \in Sessions |-> <<>>]
    /\ g_had = [r \in Sessions |-> [image |-> FALSE, analysis |-> FALSE]]
    /\ g_stages = [r \in Sessions |-> <<>>]
    /\ g_outcomes = [r \in Sessions |-> <<>>]
    /\ g_written = [r \in Sessions |-> {}]
    /\ g_failed_at = [r \in Sessions |-> 0]

SessionsIdle ==
    /\ AnalysisIdle
    /\ AssemblerIdle
    /\ RunsIdle

Init ==
    /\ StoreInit
    /\ ObsInit
    /\ CallersIdle
    /\ StoryIdle
    /\ CaptionIdle
    /\ FrameIdle
    /\ SessionsIdle

\* the call record of an add_photo call that follows immediately on an
\* add_photo call with the same image; NoCall otherwise
FirstOfTwo(image) ==
    IF last.op = "add_photo" /\ last.image = image
    THEN [op |-> "add_photo", name |-> last.name, is_new |-> last.is_new,
          known_before |-> last.known_before, total_before |-> last.total_before]
    ELSE NoCall

\* created, after an add_photo call that returned r
Created(r, image) ==
    IF r.is_new THEN Append(created, <<r.name, ImageHash(image)>>) ELSE created

AddPhoto ==
    \E image \in Images :
        LET r == add_photo(TheStore, image) IN
        /\ SetStore(r.store)
        /\ last' = [op |-> "add_photo", image |-> image,
                    name |-> r.name, is_new |-> r.is_new,
                    known_before |-> is_duplicate(TheStore, image),
                    total_before |-> get_stats(TheStore).total_photos,
                    first |-> FirstOfTwo(image)]
        /\ arrived' = IF r.is_new THEN (r.name :> <<>>) @@ arrived ELSE arrived
        /\ created' = Created(r, image)
        /\ UNCHANGED <<popped, first_issued, StoreRest>>

AddFeeling ==
    \E photo_name \in CallerNames, feeling \in FeelingTexts :
        LET r == add_feeling(TheStore, photo_name, feeling, NoUser) IN
        /\ get_stats(TheStore).total_feelings < MaxFeelings
        /\ SetStore(r.store)
        /\ last' = [op |-> "add_feeling", name |-> photo_name,
                    feeling |-> feeling, ok |-> r.ok]
        /\ arrived' = IF r.ok /\ photo_name \in DOMAIN arrived
                      THEN [arrived EXCEPT ![photo_name] = Append(@, feeling)]
                      ELSE IF r.ok THEN (photo_name :> <<feeling>>) @@ arrived
                      ELSE arrived
        /\ UNCHANGED <<created, popped, first_issued, StoreRest>>

PopNextPhoto ==
    LET r == pop_next_photo(TheStore) IN
    /\ SetStore(r.store)
    /\ last' = [op |-> "pop_next_photo", name |-> r.name]
    /\ popped' = IF r.name = NoName THEN popped ELSE Append(popped, r.name)
    /\ UNCHANGED <<arrived, created, first_issued, StoreRest>>

ClearAll ==
    /\ SetStore(clear_all(TheStore))
    /\ last' = [op |-> "clear_all", before |-> TheStore]
    /\ arrived' = <<>>
    /\ created' = <<>>
    /\ popped' = <<>>
    /\ UNCHANGED <<first_issued, StoreRest>>

Next == AddPhoto \/ AddFeeling \/ PopNextPhoto \/ ClearAll

Spec == Init /\ [][Next]_vars

\* the names of a sequence of <<name, hash>>
NamesOf(seq) == [i \in 1..Len(seq) |-> seq[i][1]]

\* the texts of a list of feeling entries
TextsOf(entries) == [i \in 1..Len(entries) |-> entries[i].feeling]

NoRepeats(seq) == \A i, j \in 1..Len(seq) : i # j => seq[i] # seq[j]

InSeq(x, seq) == \E i \in 1..Len(seq) : seq[i] = x

(***************************************************************************)
(* Claims about the store under Spec.                                      *)
(***************************************************************************)

\* C1: when add_photo(I) is called twice in a row, the second call returns
\* the name the first call returned, it returns is_new = False, and
\* total_photos is one more than before the first call if I was unknown
\* then, and what it was if I was known.
DedupIdempotence ==
    (last.op = "add_photo" /\ last.first.op = "add_photo") =>
        /\ last.name = last.first.name
        /\ last.is_new = FALSE
        /\ get_stats(TheStore).total_photos =
               last.first.total_before + (IF last.first.known_before THEN 0 ELSE 1)

\* C1 witness: an unknown image was added twice in a row to a store that
\* already held a photo.
DedupIdempotenceWitness ==
    /\ last.op = "add_photo"
    /\ last.first.op = "add_photo"
    /\ ~last.first.known_before
    /\ last.first.is_new
    /\ last.first.total_before = 1
    /\ get_stats(TheStore).total_photos = 2

\* C3: the names pop_next_photo returned, followed by the names still in
\* the queue, are the created names in upload order (so the k-th pop
\* returns the k-th upload), and pop_next_photo returns None only when
\* every uploaded name has been popped.
QueueFifo ==
    /\ popped \o photo_queue = NamesOf(created)
    /\ (last.op = "pop_next_photo" /\ last.name = NoName) =>
           (photo_queue = <<>> /\ popped = NamesOf(created))

\* C3 witness: NumContents photos of distinct content were uploaded, each
\* was popped, and one more pop returned None.
QueueFifoWitness ==
    /\ Len(created) = NumContents
    /\ Len(popped) = NumContents
    /\ last.op = "pop_next_photo"
    /\ last.name = NoName

\* C4: for every photo, get_feelings returns the texts of the add_feeling
\* calls that succeeded for it, in arrival order, repeated texts as
\* separate entries, whatever calls on other photos, add_photo calls and
\* pop_next_photo calls came in between.
FeelingAppendOrder ==
    \A n \in DOMAIN arrived :
        TextsOf(get_feelings(TheStore, n)) = arrived[n]

\* C4 witness: one photo got "happy" then "nostalgic", with a feeling for
\* another photo stored as well.
FeelingAppendOrderWitness ==
    \E n, m \in DOMAIN arrived :
        /\ n # m
        /\ arrived[n] = <<"happy", "nostalgic">>
        /\ Len(arrived[m]) = 1

\* C5: an add_feeling call with a name that is not in the store returns
\* False and leaves the photo map with every feelings list, the queue, the
\* hash map and the counter as they were.
UnknownNameRejected ==
    [][(last'.op = "add_feeling" /\ last'.name \notin DOMAIN photos) =>
           (last'.ok = FALSE /\ UNCHANGED storeVars)]_vars

\* C5 witness: add_feeling was refused on a store that holds a photo with
\* a feeling.
UnknownNameRejectedWitness ==
    /\ last.op = "add_feeling"
    /\ last.ok = FALSE
    /\ last.name \notin DOMAIN photos
    /\ get_stats(TheStore).total_feelings > 0

\* C7: an add_photo call that returns is_new = False leaves the queue as
\* it was, one that returns is_new = True appends its name, add_feeling
\* appends nothing, and no name occurs twice among the names popped and
\* the names queued.
DuplicateNeverEnqueues ==
    [][/\ last'.op = "add_photo" =>
              photo_queue' = IF last'.is_new
                             THEN Append(photo_queue, last'.name)
                             ELSE photo_queue
       /\ last'.op = "add_feeling" => photo_queue' = photo_queue
       /\ NoRepeats(popped' \o photo_queue')]_vars

\* C7 witness: a photo was uploaded again after its name had been popped.
DuplicateNeverEnqueuesWitness ==
    /\ last.op = "add_photo"
    /\ last.is_new = FALSE
    /\ InSeq(last.name, popped)
    /\ ~InSeq(last.name, photo_queue)

\* C27: when clear_all has completed, get_stats reports 0 photos, 0
\* feelings, a queue of length 0 and 0 hashes, pop_next_photo returns
\* None, add_feeling returns False for every name the store held before,
\* and add_photo returns is_new = True for every image it held before.
ClearAllResets ==
    last.op = "clear_all" =>
        /\ get_stats(TheStore) = [total_photos |-> 0, total_feelings |-> 0,
                                  queue_length |-> 0, unique_hashes |-> 0]
        /\ pop_next_photo(TheStore).name = NoName
        /\ \A photo_name \in DOMAIN last.before.photos, feeling \in FeelingTexts :
               /\ ~add_feeling(TheStore, photo_name, feeling, NoUser).ok
               /\ get_feelings(TheStore, photo_name) = <<>>
        /\ \A image \in Images :
               ImageHash(image) \in DOMAIN last.before.hash_to_name
                   => /\ ~is_duplicate(TheStore, image)
                      /\ add_photo(TheStore, image).is_new

\* C27 witness: clear_all was called on a store with two photos, a
\* feeling, a hash for each photo and a name in the queue.
ClearAllResetsWitness ==
    /\ last.op = "clear_all"
    /\ get_stats(last.before).total_photos = 2
    /\ get_stats(last.before).total_feelings > 0
    /\ get_stats(last.before).queue_length = 1
    /\ get_stats(last.before).unique_hashes = 2
    /\ photos = <<>>

\* C29: in every state add_photo, add_feeling, pop_next_photo and
\* clear_all lead to, the hash map is a one to one map from the hashes of
\* the stored photos onto the names of the stored photos, as many as the
\* counter says; every name in the queue is a stored photo, none is there
\* twice, and the queue is not longer than the number of photos.
StoreConsistent ==
    /\ \A h \in DOMAIN hash_to_name :
           /\ hash_to_name[h] \in DOMAIN photos
           /\ photos[hash_to_name[h]].hash = h
    /\ \A n \in DOMAIN photos :
           /\ photos[n].hash \in DOMAIN hash_to_name
           /\ hash_to_name[photos[n].hash] = n
           /\ photos[n].photo_name = n
    /\ get_stats(TheStore).unique_hashes = get_stats(TheStore).total_photos
    /\ get_stats(TheStore).total_photos = counter
    /\ \A i \in 1..Len(photo_queue) : photo_queue[i] \in DOMAIN photos
    /\ NoRepeats(photo_queue)
    /\ get_stats(TheStore).queue_length <= get_stats(TheStore).total_photos

\* C29 witness: the store holds two photos, one popped and one still in
\* the queue, and a feeling has just been stored.
StoreConsistentWitness ==
    /\ counter = 2
    /\ get_stats(TheStore).total_photos = 2
    /\ Len(photo_queue) = 1
    /\ Len(popped) = 1
    /\ last.op = "add_feeling"
    /\ last.ok

(***************************************************************************)
(* The same calls, observed for the names they hand out: first_issued      *)
(* remembers across clear_all what created forgets.                        *)
(***************************************************************************)

FirstIssued(r, image) ==
    IF r.is_new /\ r.name \notin DOMAIN first_issued
    THEN (r.name :> ImageHash(image)) @@ first_issued
    ELSE first_issued

NamesAddPhoto ==
    \E image \in Images :
        LET r == add_photo(TheStore, image) IN
        /\ SetStore(r.store)
        /\ created' = Created(r, image)
        /\ first_issued' = FirstIssued(r, image)
        /\ UNCHANGED <<last, arrived, popped, StoreRest>>

NamesAddFeeling ==
    \E photo_name \in CallerNames, feeling \in FeelingTexts :
        /\ get_stats(TheStore).total_feelings < MaxFeelings
        /\ SetStore(add_feeling(TheStore, photo_name, feeling, NoUser).store)
        /\ UNCHANGED <<last, arrived, created, popped, first_issued, StoreRest>>

NamesPopNextPhoto ==
    /\ SetStore(pop_next_photo(TheStore).store)
    /\ UNCHANGED <<last, arrived, created, popped, first_issued, StoreRest>>

NamesClearAll ==
    /\ SetStore(clear_all(TheStore))
    /\ created' = <<>>
    /\ UNCHANGED <<last, arrived, popped, first_issued, StoreRest>>

NamesNext == NamesAddPhoto \/ NamesAddFeeling \/ NamesPopNextPhoto \/ NamesClearAll

SpecNames == Init /\ [][NamesNext]_vars

(***************************************************************************)
(* Claims about the names under SpecNames.                                 *)
(***************************************************************************)

\* C6, as claimed: over add_photo, add_feeling, pop_next_photo and
\* clear_all, a name that add_photo returned with is_new = True is not
\* returned with is_new = True again, and it never denotes a photo with
\* another hash.
NamesNeverReused ==
    [][/\ Len(created') > Len(created) =>
              created'[Len(created')][1] \notin DOMAIN first_issued
       /\ \A n \in DOMAIN first_issued' \cap DOMAIN photos' :
              photos'[n].hash = first_issued'[n]]_vars

\* C6, amended: between two clear_all calls, a name that add_photo
\* returned with is_new = True is not returned with is_new = True again
\* and denotes the photo with the hash it was created for.
NamesNeverReusedUntilClear ==
    [][/\ Len(created') > Len(created) =>
              ~InSeq(created'[Len(created')][1], NamesOf(created))
       /\ \A i \in 1..Len(created') :
              /\ created'[i][1] \in DOMAIN photos'
              /\ photos'[created'[i][1]].hash = created'[i][2]]_vars

\* C6 witness: after a clear_all, a name handed out before it denotes a
\* photo with another hash, next to a second name of the same run.
NamesNeverReusedUntilClearWitness ==
    /\ Len(created) = 2
    /\ \E n \in DOMAIN first_issued \cap DOMAIN photos :
           photos[n].hash # first_issued[n]

(***************************************************************************)
(* Concurrent uploads: coroutines running _handle_photo_download, each     *)
(* statement of add_photo's body a step of its own, so that only the lock  *)
(* keeps the body of one call apart from the body of another.              *)
(***************************************************************************)

\* the lock taken whether or not it is held
CanAcquire_NoLock(c) == TRUE

\* asyncio.Lock.acquire returns once the lock is not held
CanAcquire(c) == lock = NoCaller

\* the statements of add_photo's body
InBody(c) == pc[c] \in {"lookup", "alloc", "insert", "enqueue", "sethash"}

\* process_frame: a photo_upload message arrives and the handler starts
\* the download
StartUpload(c) ==
    /\ pc[c] = "idle"
    /\ uploads < MaxUploads
    /\ pc' = [pc EXCEPT ![c] = "download"]
    /\ uploads' = uploads + 1
    /\ local' = [local EXCEPT ![c] = [NoLocal EXCEPT !.upload = uploads + 1]]
    /\ UNCHANGED <<storeVars, UploadRest, lock, returns>>

\* image = await self._s3_manager.download_image(file_key), an image
Downloaded(c) ==
    /\ pc[c] = "download"
    /\ \E image \in Images :
           local' = [local EXCEPT ![c].image = image]
    /\ pc' = [pc EXCEPT ![c] = "acquire"]
    /\ UNCHANGED <<storeVars, UploadRest, lock, uploads, returns>>

\* the download gave None or raised: the handler returns None
DownloadFailed(c) ==
    /\ pc[c] = "download"
    /\ pc' = [pc EXCEPT ![c] = "idle"]
    /\ local' = [local EXCEPT ![c] = NoLocal]
    /\ UNCHANGED <<storeVars, UploadRest, lock, uploads, returns>>

\* async with self._lock
Acquire(c) ==
    /\ pc[c] = "acquire"
    /\ CanAcquire(c)
    /\ lock' = c
    /\ pc' = [pc EXCEPT ![c] = "lookup"]
    /\ UNCHANGED <<storeVars, UploadRest, local, uploads, returns>>

\* image_hash = ...; if image_hash in self._hash_to_name:
\*     return existing_name, False
LookupKnown(c) ==
    /\ pc[c] = "lookup"
    /\ ImageHash(local[c].image) \in DOMAIN hash_to_name
    /\ returns' = returns \cup
           {[caller |-> c, upload |-> local[c].upload,
             image_hash |-> ImageHash(local[c].image),
             name |-> hash_to_name[ImageHash(local[c].image)],
             is_new |-> FALSE]}
    /\ lock' = NoCaller
    /\ pc' = [pc EXCEPT ![c] = "idle"]
    /\ local' = [local EXCEPT ![c] = NoLocal]
    /\ UNCHANGED <<storeVars, UploadRest, uploads>>

LookupUnknown(c) ==
    /\ pc[c] = "lookup"
    /\ ImageHash(local[c].image) \notin DOMAIN hash_to_name
    /\ local' = [local EXCEPT ![c].image_hash = ImageHash(local[c].image)]
    /\ pc' = [pc EXCEPT ![c] = "alloc"]
    /\ UNCHANGED <<storeVars, UploadRest, lock, uploads, returns>>

\* photo_name = f"image_{self._counter}"; self._counter += 1
Alloc(c) ==
    /\ pc[c] = "alloc"
    /\ local' = [local EXCEPT ![c].photo_name = PhotoName(counter)]
    /\ counter' = counter + 1
    /\ pc' = [pc EXCEPT ![c] = "insert"]
    /\ UNCHANGED <<photos, photo_queue, hash_to_name, UploadRest, lock, uploads, returns>>

\* self._photos[photo_name] = photo_data
Insert(c) ==
    /\ pc[c] = "insert"
    /\ photos' = [n \in DOMAIN photos \cup {local[c].photo_name} |->
                     IF n = local[c].photo_name
                     THEN PhotoData(local[c].photo_name, local[c].image,
                                    local[c].image_hash)
                     ELSE photos[n]]
    /\ pc' = [pc EXCEPT ![c] = "enqueue"]
    /\ UNCHANGED <<photo_queue, hash_to_name, counter, UploadRest, lock, local,
                   uploads, returns>>

\* self._photo_queue.append(photo_name)
Enqueue(c) ==
    /\ pc[c] = "enqueue"
    /\ photo_queue' = Append(photo_queue, local[c].photo_name)
    /\ pc' = [pc EXCEPT ![c] = "sethash"]
    /\ UNCHANGED <<photos, hash_to_name, counter, UploadRest, lock, local,
                   uploads, returns>>

\* self._hash_to_name[image_hash] = photo_name; return photo_name, True
SetHashAndReturn(c) ==
    /\ pc[c] = "sethash"
    /\ hash_to_name' = [h \in DOMAIN hash_to_name \cup {local[c].image_hash} |->
                           IF h = local[c].image_hash
                           THEN local[c].photo_name ELSE hash_to_name[h]]
    /\ returns' = returns \cup
           {[caller |-> c, upload |-> local[c].upload,
             image_hash |-> local[c].image_hash,
             name |-> local[c].photo_name, is_new |-> TRUE]}
    /\ lock' = NoCaller
    /\ pc' = [pc EXCEPT ![c] = "idle"]
    /\ local' = [local EXCEPT ![c] = NoLocal]
    /\ UNCHANGED <<photos, photo_queue, counter, UploadRest, uploads>>

UploadNext ==
    \E c \in Callers :
        \/ StartUpload(c)
        \/ Downloaded(c)
        \/ DownloadFailed(c)
        \/ Acquire(c)
        \/ LookupKnown(c)
        \/ LookupUnknown(c)
        \/ Alloc(c)
        \/ Insert(c)
        \/ Enqueue(c)
        \/ SetHashAndReturn(c)

SpecUploads == Init /\ [][UploadNext]_vars

\* how often x occurs in seq
Count(x, seq) == Cardinality({i \in 1..Len(seq) : seq[i] = x})

(***************************************************************************)
(* Claims about concurrent uploads under SpecUploads.                      *)
(***************************************************************************)

\* C2: however the uploading coroutines interleave, at most one of them is
\* inside add_photo's body; two calls with the same hash return the same
\* name, two calls with different hashes return different names, no name
\* is returned as new by two calls, and the name of every call that
\* returned is_new = True is in the queue exactly once.
AddPhotoAtomic ==
    /\ \A c, d \in Callers : (InBody(c) /\ InBody(d)) => c = d
    /\ \A r, q \in returns :
           /\ (r.image_hash = q.image_hash) <=> (r.name = q.name)
           /\ (r.is_new /\ q.is_new /\ r.name = q.name) => r = q
    /\ \A r \in returns : r.is_new => Count(r.name, photo_queue) = 1

\* C2 witness: one coroutine is between its map insert and its queue
\* append while another waits for the lock with an upload of the same
\* content, after a call has already returned.
AddPhotoAtomicWitness ==
    \E c, d \in Callers :
        /\ c # d
        /\ pc[c] = "enqueue"
        /\ pc[d] = "acquire"
        /\ ImageHash(local[d].image) = local[c].image_hash
        /\ local[d].image # local[c].image
        /\ \E r \in returns : r.is_new

(***************************************************************************)
(* The uploading coroutines together with callers of pop_next_photo, which *)
(* takes no lock: popleft is one step, and it may come between any two     *)
(* statements of an add_photo body.                                        *)
(***************************************************************************)

\* pop_next_photo(), called while coroutines upload
PopDuringUploads ==
    LET r == pop_next_photo(TheStore) IN
    /\ photo_queue' = r.store.queue
    /\ popped' = IF r.name = NoName THEN popped ELSE Append(popped, r.name)
    /\ UNCHANGED <<photos, hash_to_name, counter, last, arrived, created,
                   first_issued, callerVars, storyVars, captionVars, frameVars,
                   sessionVars>>

\* the coroutines that upload while the queue is consumed
Uploaders == {1, 2}

UploadPopNext ==
    \/ \E c \in Uploaders :
           \/ StartUpload(c)
           \/ Downloaded(c)
           \/ DownloadFailed(c)
           \/ Acquire(c)
           \/ LookupKnown(c)
           \/ LookupUnknown(c)
           \/ Alloc(c)
           \/ Insert(c)
           \/ Enqueue(c)
           \/ SetHashAndReturn(c)
    \/ PopDuringUploads

SpecUploadsPop == Init /\ [][UploadPopNext]_vars

\* the names the coroutines have appended to the queue so far
Enqueued ==
    counter - Cardinality({c \in Callers : pc[c] \in {"insert", "enqueue"}})

\* C28: however add_photo callers and pop_next_photo callers interleave,
\* the names popped followed by the names in the queue are the names
\* appended so far, each once and in the order of their creation
\* (image_0, image_1, ...): no name is popped twice, none is lost, and the
\* name of every add_photo call that returned is_new = True is either
\* popped or still in the queue.
PopUnderUploads ==
    LET all == popped \o photo_queue IN
    /\ Len(all) = Enqueued
    /\ \A i \in 1..Len(all) : all[i] = PhotoName(i - 1)
    /\ NoRepeats(popped)
    /\ \A r \in returns : r.is_new => Count(r.name, all) = 1

\* C28 witness: a name was popped while the coroutine that appended it was
\* still inside add_photo, another name had been popped before, and
\* another coroutine waits for the lock.
PopUnderUploadsWitness ==
    \E c, d \in Callers :
        /\ c # d
        /\ pc[c] = "sethash"
        /\ pc[d] = "acquire"
        /\ Len(popped) = 2
        /\ popped[2] = local[c].photo_name
        /\ photo_queue = <<>>

(***************************************************************************)
(* StoryboardGenerator.  A text is a sequence of words; a transcript is    *)
(* the sequence of its sentences, the pieces re.split(r'[.!?]+') gives.    *)
(* `keyword in text` is a substring test: Substrings gives, for each word  *)
(* of the vocabulary, the keywords of the generator it contains.  No text  *)
(* of the catalogue holds one of the keywords of several words.            *)
(***************************************************************************)

\* StoryboardGenerator.__init__; the duration in tenths of a second
default_scene_duration == 25
min_scenes == 3
max_scenes == 5

\* a transcript that is not a string
NoneText == << <<"None">> >>

\* the sentences a conversation is made of
SentenceCatalogue ==
    { <<"ok">>,
      <<"i", "felt", "so", "happy", "today">>,
      <<"it", "rained", "all", "morning">>,
      <<"i", "remember", "the", "sunset">>,
      <<"what", "an", "amazing", "day">>,
      <<"we", "enjoyed", "the", "park">> }

\* the descriptions an analysis gives; the first is the empty string
DescriptionCatalogue ==
    { <<>>,
      <<"a", "happy", "smile">>,
      <<"a", "peaceful", "warm", "sunset">>,
      <<"a", "cozy", "room">>,
      <<"a", "grey", "wall">>,
      <<"A", "Calm", "Home">> }

\* len(word)
WordLen(w) ==
    CASE w \in {"i", "a", "A"} -> 1
      [] w \in {"ok", "so", "it", "an", "we"} -> 2
      [] w \in {"all", "the", "day"} -> 3
      [] w \in {"felt", "what", "park", "warm", "cozy", "room", "grey", "wall"} -> 4
      [] w \in {"happy", "today", "smile"} -> 5
      [] w \in {"rained", "sunset"} -> 6
      [] w \in {"morning", "amazing", "enjoyed"} -> 7
      [] w \in {"remember", "peaceful"} -> 8
      [] OTHER -> 4

\* text.lower(), word by word
Lower(w) ==
    CASE w = "A" -> "a"
      [] w = "Calm" -> "calm"
      [] w = "Home" -> "home"
      [] OTHER -> w

\* the keywords of the generator that occur in a word of lower case
Substrings(w) ==
    CASE w = "happy" -> {"happy"}
      [] w = "remember" -> {"remember"}
      [] w = "sunset" -> {"sunset"}
      [] w = "amazing" -> {"amazing"}
      [] w = "enjoyed" -> {"joy", "enjoy"}
      [] w = "park" -> {"park"}
      [] w = "smile" -> {"smile"}
      [] w = "peaceful" -> {"peaceful"}
      [] w = "warm" -> {"warm"}
      [] w = "cozy" -> {"cozy"}
      [] w = "calm" -> {"calm"}
      [] w = "home" -> {"home"}
      [] OTHER -> {}

\* any(keyword in text.lower() for keyword in keywords)
HasAny(text, keywords) ==
    \E i \in 1..Len(text) : Substrings(Lower(text[i])) \cap keywords # {}

RECURSIVE SumLen(_)
SumLen(text) == IF text = <<>> THEN 0 ELSE WordLen(Head(text)) + SumLen(Tail(text))

\* len(sentence.strip()): the words and the blanks between them
TextLen(text) == IF text = <<>> THEN 0 ELSE SumLen(text) + Len(text) - 1

RECURSIVE Flatten(_)
Flatten(texts) == IF texts = <<>> THEN <<>> ELSE Head(texts) \o Flatten(Tail(texts))

RECURSIVE SelectSeqBy(_, _)
SelectSeqBy(seq, keep) ==
    IF seq = <<>> THEN <<>>
    ELSE (IF Head(seq) \in keep THEN <<Head(seq)>> ELSE <<>>)
             \o SelectSeqBy(Tail(seq), keep)

\* seq[:n]
Take(seq, n) == SubSeq(seq, 1, IF n < Len(seq) THEN n ELSE Len(seq))

\* emotional_keywords of _extract_emotional_moments
emotional_keywords ==
    << {"happy", "joy", "excited", "amazing", "wonderful", "beautiful",
        "love", "grateful", "blessed", "perfect", "incredible"},
       {"remember", "think", "realize", "understand", "feel",
        "moment", "special", "meaningful", "important"},
       {"memory", "reminds", "brings back", "takes me back",
        "childhood", "past", "always", "used to"} >>

\* emotion_score of one sentence
emotion_score(sentence) ==
    Cardinality({b \in 1..Len(emotional_keywords) :
                    HasAny(sentence, emotional_keywords[b])})

\* _extract_emotional_moments
extract_emotional_moments(t) ==
    Take(SelectSeqBy(t, {sentence \in SentenceCatalogue :
                            /\ ~(TextLen(sentence) < 10)
                            /\ emotion_score(sentence) > 0}),
         max_scenes)

\* theme_keywords of _identify_themes, in the order of the dict
theme_names ==
    <<"nature", "family", "achievement", "friendship", "reflection", "celebration">>

theme_keywords ==
    << {"outdoor", "nature", "park", "tree", "flower", "sunset", "sunrise", "beach"},
       {"family", "mom", "dad", "sister", "brother", "child", "parent", "together"},
       {"proud", "accomplished", "success", "finished", "completed", "won"},
       {"friend", "friends", "together", "laugh", "fun", "enjoy"},
       {"peaceful", "quiet", "think", "contemplate", "mindful", "serene"},
       {"celebrate", "party", "birthday", "anniversary", "milestone"} >>

\* _identify_themes
identify_themes(t, analysis) ==
    LET combined_text == Flatten(t) \o analysis
        hit == {theme_names[k] : k \in {k \in 1..Len(theme_names) :
                                           HasAny(combined_text, theme_keywords[k])}}
    IN Take(SelectSeqBy(theme_names, hit), 3)

\* a caption: its words, whether its first letter was made upper case and
\* the punctuation put after it
Caption(words, upper_first, stop) ==
    [words |-> words, upper_first |-> upper_first, stop |-> stop]

\* a caption the source writes out
Fixed(caption) == Caption(<<caption>>, FALSE, "")

Scene(caption, duration, emotional_tone) ==
    [caption |-> caption, duration |-> duration, emotional_tone |-> emotional_tone]

\* _determine_tone_from_analysis with the warm bucket tried before the
\* peaceful one
determine_tone_from_analysis_WarmFirst(analysis) ==
    IF HasAny(analysis, {"happy", "joy", "smile", "celebrate"}) THEN "joyful"
    ELSE IF HasAny(analysis, {"warm", "cozy", "comfortable", "home"}) THEN "warm"
    ELSE IF HasAny(analysis, {"peaceful", "calm", "serene", "quiet"}) THEN "peaceful"
    ELSE "contemplative"

\* _determine_tone_from_analysis
determine_tone_from_analysis(analysis) ==
    IF HasAny(analysis, {"happy", "joy", "smile", "celebrate"}) THEN "joyful"
    ELSE IF HasAny(analysis, {"peaceful", "calm", "serene", "quiet"}) THEN "peaceful"
    ELSE IF HasAny(analysis, {"warm", "cozy", "comfortable", "home"}) THEN "warm"
    ELSE "contemplative"

\* _determine_tone_from_text with a default outside the vocabulary
determine_tone_from_text_Neutral(text) ==
    IF HasAny(text, {"excited", "amazing", "wonderful", "incredible"}) THEN "excited"
    ELSE IF HasAny(text, {"grateful", "blessed", "thankful"}) THEN "grateful"
    ELSE IF HasAny(text, {"remember", "memory", "reminds"}) THEN "nostalgic"
    ELSE "neutral"

\* _determine_tone_from_text
determine_tone_from_text(text) ==
    IF HasAny(text, {"excited", "amazing", "wonderful", "incredible"}) THEN "excited"
    ELSE IF HasAny(text, {"grateful", "blessed", "thankful"}) THEN "grateful"
    ELSE IF HasAny(text, {"remember", "memory", "reminds"}) THEN "nostalgic"
    ELSE "reflective"

common_words ==
    {"the", "a", "an", "and", "or", "but", "in", "on", "at", "to", "for",
     "of", "with", "by"}

RECURSIVE FilterWords(_)
FilterWords(words) ==
    IF words = <<>> THEN <<>>
    ELSE (IF Head(words) \notin common_words /\ WordLen(Head(words)) > 2
          THEN <<Head(words)>> ELSE <<>>) \o FilterWords(Tail(words))

\* _extract_key_phrase; no sentence ends in '.', '!' or '?', the split took them
extract_key_phrase(sentence) ==
    LET key_phrase == Take(FilterWords(sentence), 8) IN
    IF key_phrase # <<>> THEN Caption(key_phrase, TRUE, ".")
    ELSE Fixed("A moment worth remembering.")

\* the scenes of the emotional moments
MomentScenes(moments) ==
    [i \in 1..Len(moments) |->
        Scene(extract_key_phrase(moments[i]), default_scene_duration,
              determine_tone_from_text(moments[i]))]

\* _create_scenes without the final scene
create_scenes_NoClosing(emotional_moments, themes, analysis) ==
    (IF analysis # <<>>
     THEN <<Scene(Fixed("This moment captured something special"),
                  default_scene_duration, determine_tone_from_analysis(analysis))>>
     ELSE <<>>)
    \o MomentScenes(Take(emotional_moments, 2))

\* _create_scenes
create_scenes(emotional_moments, themes, analysis) ==
    (IF analysis # <<>>
     THEN <<Scene(Fixed("This moment captured something special"),
                  default_scene_duration, determine_tone_from_analysis(analysis))>>
     ELSE <<>>)
    \o MomentScenes(Take(emotional_moments, 2))
    \o (IF themes # <<>>
        THEN <<Scene(Fixed("A memory to treasure always"),
                     default_scene_duration, "reflective")>>
        ELSE <<>>)

\* _optimize_scene_count that does not fill up
optimize_scene_count_NoPadding(sc) ==
    IF Len(sc) > max_scenes THEN Take(sc, max_scenes) ELSE sc

\* _optimize_scene_count
optimize_scene_count(sc) ==
    IF Len(sc) < min_scenes
    THEN sc \o [i \in 1..(min_scenes - Len(sc)) |->
                   Scene(Fixed("This moment tells a story"),
                         default_scene_duration, "contemplative")]
    ELSE IF Len(sc) > max_scenes THEN Take(sc, max_scenes)
    ELSE sc

\* _get_fallback_scenes
get_fallback_scenes ==
    << Scene(Fixed("A moment captured in time"), default_scene_duration, "contemplative"),
       Scene(Fixed("This memory matters"), default_scene_duration, "warm"),
       Scene(Fixed("Forever in my heart"), default_scene_duration, "nostalgic") >>

\* generate_from_conversation that answers an input without scenes as it
\* answers an exception
generate_from_conversation_OneFallback(t, analysis) ==
    IF t = NoneText
    THEN get_fallback_scenes
    ELSE LET sc == create_scenes(extract_emotional_moments(t),
                                 identify_themes(t, analysis), analysis)
         IN IF sc = <<>> THEN get_fallback_scenes ELSE optimize_scene_count(sc)

\* generate_from_conversation: re.split raises on a transcript that is
\* not a string, and the except clause answers with the fallback scenes
generate_from_conversation(t, analysis) ==
    IF t = NoneText
    THEN get_fallback_scenes
    ELSE optimize_scene_count(
             create_scenes(extract_emotional_moments(t),
                           identify_themes(t, analysis), analysis))

\* bot.py: a client message is added to the transcript
Say ==
    /\ sb_pc = "talking"
    /\ Len(transcript) < MaxSentences
    /\ \E sentence \in SentenceCatalogue : transcript' = Append(transcript, sentence)
    /\ UNCHANGED <<photo_analysis, scenes, sb_pc, StoryRest>>

\* bot.py: the response of an analysis becomes the latest description
Describe ==
    /\ sb_pc = "talking"
    /\ \E analysis \in DescriptionCatalogue :
           /\ analysis # photo_analysis
           /\ photo_analysis' = analysis
    /\ UNCHANGED <<transcript, scenes, sb_pc, StoryRest>>

\* generate_from_conversation(self._conversation_transcript, response)
Generate ==
    /\ sb_pc = "talking"
    /\ scenes' = generate_from_conversation(transcript, photo_analysis)
    /\ sb_pc' = "generated"
    /\ UNCHANGED <<transcript, photo_analysis, StoryRest>>

\* generate_from_conversation called without a transcript
GenerateFromNone ==
    /\ sb_pc = "talking"
    /\ transcript = <<>>
    /\ transcript' = NoneText
    /\ scenes' = generate_from_conversation(NoneText, photo_analysis)
    /\ sb_pc' = "generated"
    /\ UNCHANGED <<photo_analysis, StoryRest>>

StoryNext == Say \/ Describe \/ Generate \/ GenerateFromNone

SpecStoryboard == Init /\ [][StoryNext]_vars

(***************************************************************************)
(* Claims about the storyboard under SpecStoryboard.                       *)
(***************************************************************************)

\* C8: for every transcript, the empty one and one that is no string
\* included, and every description, generate_from_conversation returns at
\* least 3 and at most 5 scenes.
StoryboardBounds ==
    sb_pc = "generated" => (Len(scenes) >= 3 /\ Len(scenes) <= 5)

\* C8 witness: the storyboard of the empty transcript and the empty
\* description has 3 scenes.
StoryboardBoundsWitness ==
    /\ sb_pc = "generated"
    /\ transcript = <<>>
    /\ photo_analysis = <<>>
    /\ Len(scenes) = 3

\* the scenes _create_scenes gives for the conversation, before the count
\* is set right
ScenesBuilt ==
    create_scenes(extract_emotional_moments(transcript),
                  identify_themes(transcript, photo_analysis), photo_analysis)

\* the scene _optimize_scene_count fills up with
FillerScene ==
    Scene(Fixed("This moment tells a story"), default_scene_duration, "contemplative")

\* the positions of the scene "A memory to treasure always"
ClosingPositions ==
    {i \in 1..Len(scenes) : scenes[i].caption = Fixed("A memory to treasure always")}

\* C21: generate_from_conversation raises nothing and degrades to a fixed
\* sequence of 3 scenes: a transcript that makes the generation raise gives
\* the scenes of _get_fallback_scenes, and an input that yields no scene
\* (empty, or too short) gives three times the scene "This moment tells a
\* story", which is another sequence.
StoryboardDegrades ==
    sb_pc = "generated" =>
        /\ transcript = NoneText => scenes = get_fallback_scenes
        /\ (transcript # NoneText /\ ScenesBuilt = <<>>) =>
               /\ scenes = <<FillerScene, FillerScene, FillerScene>>
               /\ scenes # get_fallback_scenes

\* C21 witness: a transcript of one short sentence and no description
\* yield no scene, and the storyboard is three filler scenes.
StoryboardDegradesWitness ==
    /\ sb_pc = "generated"
    /\ transcript = << <<"ok">> >>
    /\ photo_analysis = <<>>
    /\ ScenesBuilt = <<>>
    /\ scenes = <<FillerScene, FillerScene, FillerScene>>

\* C21 as stated: an exception and an input that yields no scene are both
\* answered with the one sequence of _get_fallback_scenes.
StoryboardOneFallback ==
    (sb_pc = "generated" /\ (transcript = NoneText \/ ScenesBuilt = <<>>))
        => scenes = get_fallback_scenes

\* C22: when a theme is identified, the storyboard holds exactly one scene
\* "A memory to treasure always", its tone is reflective, it stands where
\* _create_scenes put it, behind the opening scene and the scenes of the
\* moments, and only filler scenes follow it; it is the last scene when
\* nothing was filled up.
ClosingSceneBeforeFillers ==
    (/\ sb_pc = "generated"
     /\ transcript # NoneText
     /\ identify_themes(transcript, photo_analysis) # <<>>)
        => /\ ClosingPositions = {Len(ScenesBuilt)}
           /\ scenes[Len(ScenesBuilt)].emotional_tone = "reflective"
           /\ \A j \in (Len(ScenesBuilt) + 1)..Len(scenes) : scenes[j] = FillerScene
           /\ Len(ScenesBuilt) >= min_scenes => Len(scenes) = Len(ScenesBuilt)

\* C22 witness: a description with a theme and no emotional moment: the
\* closing scene is the second of three and a filler scene follows it.
ClosingSceneBeforeFillersWitness ==
    /\ sb_pc = "generated"
    /\ transcript # NoneText
    /\ identify_themes(transcript, photo_analysis) # <<>>
    /\ Len(scenes) = 3
    /\ ClosingPositions = {2}
    /\ scenes[3] = FillerScene

\* C22 as stated: when a theme is identified, the one closing scene is the
\* last scene of the storyboard, filled up or not.
ClosingSceneLast ==
    (/\ sb_pc = "generated"
     /\ transcript # NoneText
     /\ identify_themes(transcript, photo_analysis) # <<>>)
        => /\ Cardinality(ClosingPositions) = 1
           /\ Len(scenes) \in ClosingPositions

\* the keyword buckets of the description, in the order they are tried
JoyfulWords == {"happy", "joy", "smile", "celebrate"}
PeacefulWords == {"peaceful", "calm", "serene", "quiet"}
WarmWords == {"warm", "cozy", "comfortable", "home"}

\* C23: for a description that is not empty (and a transcript that is a
\* string), the first scene is the opening scene; its tone is joyful when
\* the description has a word of the joyful bucket, else peaceful when it
\* has one of the peaceful bucket, else warm when it has one of the warm
\* bucket, and contemplative when it has none.
OpeningSceneTone ==
    (sb_pc = "generated" /\ transcript # NoneText /\ photo_analysis # <<>>)
        => /\ scenes[1].caption = Fixed("This moment captured something special")
           /\ scenes[1].emotional_tone =
                  (CASE HasAny(photo_analysis, JoyfulWords) -> "joyful"
                     [] /\ ~HasAny(photo_analysis, JoyfulWords)
                        /\ HasAny(photo_analysis, PeacefulWords) -> "peaceful"
                     [] /\ ~HasAny(photo_analysis, JoyfulWords)
                        /\ ~HasAny(photo_analysis, PeacefulWords)
                        /\ HasAny(photo_analysis, WarmWords) -> "warm"
                     [] OTHER -> "contemplative")

\* C23 witness: a description with a word of the peaceful and a word of
\* the warm bucket opens the storyboard with a peaceful scene.
OpeningSceneToneWitness ==
    /\ sb_pc = "generated"
    /\ transcript # NoneText
    /\ HasAny(photo_analysis, PeacefulWords)
    /\ HasAny(photo_analysis, WarmWords)
    /\ scenes[1].emotional_tone = "peaceful"

\* the vocabulary of tones
ToneVocabulary ==
    {"joyful", "peaceful", "warm", "contemplative", "excited", "grateful",
     "nostalgic", "reflective"}

\* C24: every scene of a storyboard, generated, filled up or fallen back
\* to, has a tone of the vocabulary, a duration above 0 and a caption that
\* is not empty.
ScenesWellFormed ==
    sb_pc = "generated" =>
        \A i \in 1..Len(scenes) :
            /\ scenes[i].emotional_tone \in ToneVocabulary
            /\ scenes[i].duration > 0
            /\ scenes[i].caption.words # <<>>
            /\ \A k \in 1..Len(scenes[i].caption.words) :
                   scenes[i].caption.words[k] # ""

\* C24 witness: a storyboard with the scene of a moment whose tone is the
\* default of the text, filled up to three scenes.
ScenesWellFormedWitness ==
    /\ sb_pc = "generated"
    /\ transcript # NoneText
    /\ photo_analysis = <<>>
    /\ Len(extract_emotional_moments(transcript)) = 1
    /\ scenes[1].emotional_tone = "reflective"
    /\ scenes[1].caption.upper_first
    /\ scenes[3] = FillerScene

(***************************************************************************)
(* CaptionGenerator.  The text of a response is the sequence of its lines, *)
(* the empty sequence being the empty string; a line is the sequence of    *)
(* its tokens, the pieces between blanks, and " " is a token of blanks     *)
(* only.                                                                   *)
(***************************************************************************)

\* self.fallback_captions
fallback_captions ==
    << <<"A moment to remember">>,
       <<"Captured in time">>,
       <<"This memory matters">>,
       <<"Forever in my heart">>,
       <<"A story worth telling">> >>

\* the lines a response is made of: blanks only, a plain caption, numbered
\* ones, emphasised ones, ones with a scene prefix, one of 13 words and one
\* of 12 words behind a number
LineCatalogue ==
    { <<" ">>,
      <<"calm", "sea">>,
      <<"1.", "calm", "sea">>,
      <<"6.", "calm", "sea">>,
      <<"2.">>,
      <<"**", "calm", "sea", "**">>,
      <<"Scene", "1:", "calm", "sea">>,
      <<"Scene", "one">>,
      [i \in 1..13 |-> "word"],
      <<"3.">> \o [i \in 1..12 |-> "word"] }

RECURSIVE LStrip(_)
LStrip(line) ==
    IF line # <<>> /\ Head(line) = " " THEN LStrip(Tail(line)) ELSE line

RECURSIVE RStrip(_)
RStrip(line) ==
    IF line # <<>> /\ line[Len(line)] = " "
    THEN RStrip(SubSeq(line, 1, Len(line) - 1)) ELSE line

\* line.strip()
Strip(line) == RStrip(LStrip(line))

\* line.replace('**', ''), the markers standing as tokens of their own
RemoveEmphasis(line) == SelectSeq(line, LAMBDA token : token # "**")

\* line.startswith(('1.', '2.', '3.', '4.', '5.'))
StartsWithOrdinal(line) ==
    line # <<>> /\ Head(line) \in {"1.", "2.", "3.", "4.", "5."}

\* the tokens that end in a colon
ColonTokens == {"1:"}

\* the position of the first token with a colon, 0 if there is none
ColonPos(line) ==
    IF \E i \in 1..Len(line) : line[i] \in ColonTokens
    THEN CHOOSE i \in 1..Len(line) :
             /\ line[i] \in ColonTokens
             /\ \A j \in 1..(i - 1) : line[j] \notin ColonTokens
    ELSE 0

\* the body of the loop of _parse_caption_response, up to the test
CleanLine(line0) ==
    LET line1 == Strip(RemoveEmphasis(line0))
        line2 == IF StartsWithOrdinal(line1) THEN Strip(Tail(line1)) ELSE line1
        line3 == IF line2 # <<>> /\ Head(line2) = "Scene" /\ ColonPos(line2) # 0
                 THEN Strip(SubSeq(line2, ColonPos(line2) + 1, Len(line2)))
                 ELSE line2
    IN line3

RECURSIVE CleanLines(_)
CleanLines(lines) ==
    IF lines = <<>> THEN <<>>
    ELSE LET line == CleanLine(Head(lines)) IN
         (IF line # <<>> /\ Len(line) <= 12 THEN <<line>> ELSE <<>>)
             \o CleanLines(Tail(lines))

RECURSIVE StripLines(_)
StripLines(lines) ==
    IF lines = <<>> THEN <<>>
    ELSE (IF Strip(Head(lines)) # <<>> THEN <<Strip(Head(lines))>> ELSE <<>>)
             \o StripLines(Tail(lines))

Min(a, b) == IF a < b THEN a ELSE b

RECURSIVE ExtendUntil(_, _)
ExtendUntil(caps, count) ==
    IF Len(caps) < count
    THEN ExtendUntil(caps \o Take(fallback_captions,
                                  Min(count - Len(caps), Len(fallback_captions))),
                     count)
    ELSE caps

\* _get_fallback_captions
get_fallback_captions(count) ==
    IF count <= Len(fallback_captions)
    THEN Take(fallback_captions, count)
    ELSE Take(ExtendUntil(fallback_captions, count), count)

\* _parse_caption_response
parse_caption_response(text, expected_count) ==
    IF text = <<>>
    THEN get_fallback_captions(expected_count)
    ELSE LET caps == CleanLines(StripLines(text)) IN
         IF Len(caps) < expected_count
         THEN caps \o Take(fallback_captions, expected_count - Len(caps))
         ELSE IF Len(caps) > expected_count
         THEN Take(caps, expected_count)
         ELSE caps

\* generate_captions_for_scenes is called with a list of scene_count scenes
\* and awaits the model
RequestCaptions ==
    /\ cap_pc \in {"idle", "done"}
    /\ \E scene_count \in 0..MaxSceneCount : cap_n' = scene_count
    /\ response_text' = <<>>
    /\ captions' = <<>>
    /\ cap_pc' = "calling"
    /\ UNCHANGED CaptionRest

\* the model writes one more line of its response
ModelWrites ==
    /\ cap_pc = "calling"
    /\ Len(response_text) < MaxLines
    /\ \E line \in LineCatalogue : response_text' = Append(response_text, line)
    /\ UNCHANGED <<cap_n, captions, cap_pc, CaptionRest>>

\* the model answers, and its response is parsed
ModelResponds ==
    /\ cap_pc = "calling"
    /\ captions' = parse_caption_response(response_text, cap_n)
    /\ cap_pc' = "done"
    /\ UNCHANGED <<cap_n, response_text, CaptionRest>>

\* the call of the model raises: the except clause of
\* generate_captions_for_scenes
ModelRaises ==
    /\ cap_pc = "calling"
    /\ captions' = get_fallback_captions(cap_n)
    /\ cap_pc' = "done"
    /\ UNCHANGED <<cap_n, response_text, CaptionRest>>

CaptionNext == RequestCaptions \/ ModelWrites \/ ModelResponds \/ ModelRaises

SpecCaptions == Init /\ [][CaptionNext]_vars

(***************************************************************************)
(* Claims about the captions under SpecCaptions.                           *)
(***************************************************************************)

\* C9: for every number n of scenes and every outcome of the model,
\* generate_captions_for_scenes returns exactly n captions.
CaptionCountInvariant ==
    cap_pc = "done" => Len(captions) = cap_n

(***************************************************************************)
(* FrameCreator.  A file of the temporary directory is named by the index  *)
(* of its frame; the process id of the name is the same for all of them.   *)
(***************************************************************************)

\* the captions frames are made for
CaptionTexts == {"a", "b"}

CaptionLists == UNION {[1..n -> CaptionTexts] : n \in 0..MaxCaptions}

\* a temp_path that leaves the index of the frame out
TempPath_NoIndex(frame_index) == <<"video_frame", 0, "pid">>

\* temp_path of _save_temp_frame
TempPath(frame_index) == <<"video_frame", frame_index, "pid">>

\* frame_image.save(temp_path): the file at temp_path holds the image
FrameImageSave(files, path, frame_image) ==
    [q \in DOMAIN files \cup {path} |-> IF q = path THEN frame_image ELSE files[q]]

\* the image _create_single_frame makes of the caption at position i
FrameImage(i, caption) == <<i, caption>>

\* the except clause of create_captioned_frames handing out what was made
OnException_Partial(paths) == paths

\* the except clause of create_captioned_frames: return []
OnException(paths) == <<>>

\* create_captioned_frames is called
CreateCaptionedFrames ==
    /\ fr_pc = "idle"
    /\ \E caps \in CaptionLists : fr_captions' = caps
    /\ fr_i' = 0
    /\ frame_paths' = <<>>
    /\ fr_returned' = <<>>
    /\ failed_at' = 0
    /\ fr_pc' = "prepare"
    /\ UNCHANGED <<disk, FrameRest>>

\* prepared_image = self._prepare_base_image(base_image); frame_paths = []
PrepareBaseImage ==
    /\ fr_pc = "prepare"
    /\ fr_pc' = "render"
    /\ UNCHANGED <<fr_captions, fr_i, frame_paths, disk, fr_returned, failed_at, FrameRest>>

\* _prepare_base_image raises
PrepareFails ==
    /\ fr_pc = "prepare"
    /\ fr_returned' = OnException(frame_paths)
    /\ fr_pc' = "returned"
    /\ UNCHANGED <<fr_captions, fr_i, frame_paths, disk, failed_at, FrameRest>>

\* frame_image = self._create_single_frame(prepared_image, caption)
CreateSingleFrame ==
    /\ fr_pc = "render"
    /\ fr_i < Len(fr_captions)
    /\ fr_pc' = "save"
    /\ UNCHANGED <<fr_captions, fr_i, frame_paths, disk, fr_returned, failed_at, FrameRest>>

\* _create_single_frame raises
RenderFails ==
    /\ fr_pc = "render"
    /\ fr_i < Len(fr_captions)
    /\ failed_at' = fr_i + 1
    /\ fr_returned' = OnException(frame_paths)
    /\ fr_pc' = "returned"
    /\ UNCHANGED <<fr_captions, fr_i, frame_paths, disk, FrameRest>>

\* frame_path = self._save_temp_frame(frame_image, i);
\* frame_paths.append(frame_path)
SaveTempFrame ==
    /\ fr_pc = "save"
    /\ disk' = FrameImageSave(disk, TempPath(fr_i),
                               FrameImage(fr_i + 1, fr_captions[fr_i + 1]))
    /\ frame_paths' = Append(frame_paths, TempPath(fr_i))
    /\ fr_i' = fr_i + 1
    /\ fr_pc' = "render"
    /\ UNCHANGED <<fr_captions, fr_returned, failed_at, FrameRest>>

\* frame_image.save raises, before or after it made the file
SaveFails ==
    /\ fr_pc = "save"
    /\ \E made \in BOOLEAN :
           disk' = IF made
                   THEN FrameImageSave(disk, TempPath(fr_i),
                                       FrameImage(fr_i + 1, "cut short"))
                   ELSE disk
    /\ failed_at' = fr_i + 1
    /\ fr_returned' = OnException(frame_paths)
    /\ fr_pc' = "returned"
    /\ UNCHANGED <<fr_captions, fr_i, frame_paths, FrameRest>>

\* return frame_paths
ReturnFramePaths ==
    /\ fr_pc = "render"
    /\ fr_i = Len(fr_captions)
    /\ fr_returned' = frame_paths
    /\ fr_pc' = "returned"
    /\ UNCHANGED <<fr_captions, fr_i, frame_paths, disk, failed_at, FrameRest>>

\* the files that are left when cleanup_temp_frames has gone through paths
cleanup_temp_frames(files, paths) ==
    [q \in DOMAIN files \ {paths[k] : k \in 1..Len(paths)} |-> files[q]]

\* the caller, given no frames, gives up
CallerGivesUp ==
    /\ fr_pc = "returned"
    /\ fr_returned = <<>>
    /\ fr_pc' = "idle"
    /\ UNCHANGED <<fr_captions, fr_i, frame_paths, disk, fr_returned, failed_at, FrameRest>>

\* the caller, done with the frames, calls cleanup_temp_frames(frame_paths)
CallerCleansUp ==
    /\ fr_pc = "returned"
    /\ fr_returned # <<>>
    /\ disk' = cleanup_temp_frames(disk, fr_returned)
    /\ fr_pc' = "idle"
    /\ UNCHANGED <<fr_captions, fr_i, frame_paths, fr_returned, failed_at, FrameRest>>

FrameNext ==
    \/ CreateCaptionedFrames
    \/ PrepareBaseImage
    \/ PrepareFails
    \/ CreateSingleFrame
    \/ RenderFails
    \/ SaveTempFrame
    \/ SaveFails
    \/ ReturnFramePaths
    \/ CallerGivesUp
    \/ CallerCleansUp

SpecFrames == Init /\ [][FrameNext]_vars

(***************************************************************************)
(* Claims about the frames under SpecFrames.                               *)
(***************************************************************************)

\* C10: when rendering or saving has failed at the k-th caption of a
\* create_captioned_frames call, whatever k is and whatever was written
\* before, the call has returned, and has returned the empty list.
RendererFailClosed ==
    failed_at # 0 => (fr_pc \in {"returned", "idle"} /\ fr_returned = <<>>)

\* C10 witness: the call failed at its third caption, after it had made
\* two frames whose files are on the disk, and returned the empty list.
RendererFailClosedWitness ==
    /\ fr_pc = "returned"
    /\ failed_at = 3
    /\ Len(frame_paths) = 2
    /\ {TempPath(0), TempPath(1)} \subseteq DOMAIN disk
    /\ fr_returned = <<>>

NoneResponse == <<"None">>

\* get_fallback_response
get_fallback_response ==
    <<"I can see you've shared a photo with me! While I'm having trouble analyzing the details right now, I'd love to hear about this moment from you. What was happening when you took this photo, and how were you feeling?">>

\* response.text of the vision model: the empty string, or a description
AnalysisTexts == {<<>>, <<"a", "happy", "smile">>}

\* what generate_content does: raise, give a response whose text raises
\* when read, or give a response with a text, the empty one included
ModelOutcomes ==
    {[kind |-> "raises", text |-> NoneResponse],
     [kind |-> "text_raises", text |-> NoneResponse]}
        \cup {[kind |-> "text", text |-> d] : d \in AnalysisTexts}

\* _analyze_image: the dict, of which the analysis is kept, or None
analyze_image(outcome) ==
    IF outcome.kind = "text" THEN [analysis |-> outcome.text] ELSE [none |-> TRUE]

\* generate_memory_response
generate_memory_response(analysis_result) ==
    IF "analysis" \notin DOMAIN analysis_result
    THEN NoneResponse
    ELSE analysis_result.analysis

\* analyze_and_respond that answers a failure with the fallback itself
analyze_and_respond_Fallback(outcome) ==
    IF "analysis" \notin DOMAIN analyze_image(outcome)
    THEN get_fallback_response
    ELSE generate_memory_response(analyze_image(outcome))

\* analyze_and_respond
analyze_and_respond(outcome) ==
    IF "analysis" \notin DOMAIN analyze_image(outcome)
    THEN NoneResponse
    ELSE generate_memory_response(analyze_image(outcome))

\* `if analysis_response:` of _handle_photo_download
Truthy(response) == response # NoneResponse /\ response # <<>>

\* the file_url of the client messages
FileKeys == {"photo_a.jpg", "photo_b.jpg"}

\* image_data of _handle_photo_download; size and format come with the
\* image
ImageData(file_key, image) == [file_key |-> file_key, image |-> image]

\* analysis_data that is filed under one key whatever the photo
AnalysisData_OneKey(file_key, analysis_response) ==
    [file_key |-> "photo_a.jpg",
     response |-> IF Truthy(analysis_response) THEN analysis_response
                  ELSE get_fallback_response,
     timestamp |-> IF Truthy(analysis_response) THEN "GenerativeModel"
                   ELSE "fallback"]

\* analysis_data of _handle_photo_download
AnalysisData(file_key, analysis_response) ==
    [file_key |-> file_key,
     response |-> IF Truthy(analysis_response) THEN analysis_response
                  ELSE get_fallback_response,
     timestamp |-> IF Truthy(analysis_response) THEN "GenerativeModel"
                   ELSE "fallback"]

\* the photo of a client message is asked for from the storage
StartDownload(r) ==
    /\ an_pc[r] = "idle"
    /\ Len(downloaded_images[r]) < MaxPhotos
    /\ an_pc' = [an_pc EXCEPT ![r] = "downloading"]
    /\ model_calls' = [model_calls EXCEPT ![r] = 0]
    /\ an_returned' = [an_returned EXCEPT ![r] = [kind |-> "none", response |-> NoneResponse]]
    /\ \E file_key \in FileKeys : an_key' = [an_key EXCEPT ![r] = file_key]
    /\ UNCHANGED <<downloaded_images, image_analyses, AnalysisRest>>

\* download_image returns None or raises: nothing is stored
PhotoDownloadFails(r) ==
    /\ an_pc[r] = "downloading"
    /\ an_pc' = [an_pc EXCEPT ![r] = "idle"]
    /\ UNCHANGED <<downloaded_images, image_analyses, model_calls, an_returned,
                   an_key, AnalysisRest>>

\* download_image returns the image: it is stored, and
\* analyze_and_respond calls the model
PhotoDownloaded(r) ==
    /\ an_pc[r] = "downloading"
    /\ downloaded_images' =
           [downloaded_images EXCEPT ![r] = Append(@, ImageData(an_key[r], Len(@) + 1))]
    /\ model_calls' = [model_calls EXCEPT ![r] = @ + 1]
    /\ an_pc' = [an_pc EXCEPT ![r] = "analyzing"]
    /\ UNCHANGED <<image_analyses, an_returned, an_key, AnalysisRest>>

\* the model call ends, analyze_and_respond returns, and the response or
\* the fallback response is stored as the analysis of the photo
ModelCallEnds(r) ==
    /\ an_pc[r] = "analyzing"
    /\ \E outcome \in ModelOutcomes :
           LET analysis_response == analyze_and_respond(outcome) IN
           /\ an_returned' = [an_returned EXCEPT ![r] =
                                 [kind |-> outcome.kind, response |-> analysis_response]]
           /\ image_analyses' =
                  [image_analyses EXCEPT ![r] =
                      Append(@, AnalysisData(an_key[r], analysis_response))]
    /\ an_pc' = [an_pc EXCEPT ![r] = "idle"]
    /\ UNCHANGED <<downloaded_images, model_calls, an_key, AnalysisRest>>

AnalysisNext ==
    \E r \in Sessions :
        \/ StartDownload(r)
        \/ PhotoDownloadFails(r)
        \/ PhotoDownloaded(r)
        \/ ModelCallEnds(r)

SpecAnalysis == Init /\ [][AnalysisNext]_vars

(***************************************************************************)
(* Claims about the analysis of photos under SpecAnalysis.                 *)
(***************************************************************************)

\* C20: when the call of the vision model has failed, analyze_and_respond
\* has returned None, the model was called once for that photo, and the
\* fallback sentence is stored as the description of the photo; and
\* whenever a session is not in the middle of a photo, each of its
\* downloaded photos has a stored description that is neither None nor
\* empty.
AnalysisFallback ==
    \A r \in Sessions :
        /\ (an_pc[r] = "idle" /\ an_returned[r].kind \in {"raises", "text_raises"})
               => /\ an_returned[r].response = NoneResponse
                  /\ model_calls[r] = 1
                  /\ image_analyses[r][Len(image_analyses[r])].response
                         = get_fallback_response
        /\ an_pc[r] \in {"idle", "downloading"}
               => /\ Len(image_analyses[r]) = Len(downloaded_images[r])
                  /\ \A k \in 1..Len(image_analyses[r]) :
                         Truthy(image_analyses[r][k].response)

\* C20 witness: the model call of a session's photo raised, and the photo
\* has the fallback sentence as its description.
AnalysisFallbackWitness ==
    \E r \in Sessions :
        /\ an_pc[r] = "idle"
        /\ an_returned[r].kind = "raises"
        /\ Len(downloaded_images[r]) = 1
        /\ image_analyses[r][1].response = get_fallback_response

\* C30: whenever a session is not between the storing of a photo and the
\* storing of its description, whatever downloads and analyses failed
\* before, it has as many descriptions as downloaded photos, and the k-th
\* description is filed under the file key of the k-th photo; so the
\* latest description is the one of the latest photo.
PhotoDescriptionPaired ==
    \A r \in Sessions :
        an_pc[r] \in {"idle", "downloading"}
            => /\ Len(image_analyses[r]) = Len(downloaded_images[r])
               /\ \A k \in 1..Len(downloaded_images[r]) :
                      image_analyses[r][k].file_key = downloaded_images[r][k].file_key

\* C30 witness: a session has handled two photos with different file
\* keys; the analysis of the first gave a text and the analysis of the
\* second failed.
PhotoDescriptionPairedWitness ==
    \E r \in Sessions :
        /\ an_pc[r] = "idle"
        /\ Len(downloaded_images[r]) = 2
        /\ downloaded_images[r][1].file_key # downloaded_images[r][2].file_key
        /\ image_analyses[r][1].timestamp = "GenerativeModel"
        /\ image_analyses[r][2].timestamp = "fallback"
        /\ image_analyses[r][2].file_key = downloaded_images[r][2].file_key

(***************************************************************************)
(* VideoGenerator.  The files of the temporary directory are named by      *)
(* <<kind, index, id>>; the id of an output file is the random part of     *)
(* its name, which no two calls share.                                     *)
(***************************************************************************)

\* temp_list_path of _create_ffmpeg_input_list
InputListPath == <<"ffmpeg_input", 0, "pid">>

\* temp_output_path of create_memory_video, for the call of session r
OutputPath(r) == <<"memory_video", r, "uuid">>

\* the output files that earlier calls of session r left behind: their
\* names are not the name of the output file of any later call
OldOutputPath(r) == <<"memory_video", r, "earlier uuid">>

\* the URL generate_presigned_url gives for the video of session r
Url(r) == <<"https", "memory-videos", OutputPath(r)>>

\* the file at path is there
Exists(files, path) == path \in DOMAIN files

\* session r writes the file at path
WriteFile(files, path, r) ==
    [q \in DOMAIN files \cup {path} |-> IF q = path THEN r ELSE files[q]]

\* os.remove(path) if the file is there: _cleanup_temp_file
cleanup_temp_file(files, path) ==
    [q \in DOMAIN files \ {path} |-> files[q]]

\* the files when a new call of session r has chosen the name of its
\* output file
NewOutputName(files, r) ==
    IF Exists(files, OutputPath(r))
    THEN WriteFile(cleanup_temp_file(files, OutputPath(r)), OldOutputPath(r), r)
    ELSE files

\* frame_path.replace("\\", "/").replace("'", "\\'"), on the parts of the
\* path that are text
Escape(path) ==
    [k \in 1..Len(path) |->
        IF k = 2 THEN path[k]
        ELSE IF path[k] = "\\" THEN "/"
        ELSE IF path[k] = "'" THEN "\\'"
        ELSE path[k]]

\* f.write(f"file '{escaped_path}'\n")
FileLine(path) == [file |-> Escape(path)]

\* f.write(f"duration {scene.duration}\n")
DurationLine(scene) == [duration |-> scene.duration]

\* _create_ffmpeg_input_list without the last frame written again
EditList_NoRepeat(paths, sc) ==
    LET n == Min(Len(paths), Len(sc)) IN
    [k \in 1..(2 * n) |->
        IF k % 2 = 1 THEN FileLine(paths[(k + 1) \div 2])
        ELSE DurationLine(sc[k \div 2])]

\* the lines _create_ffmpeg_input_list writes: a file line and a duration
\* line for each pair of zip(frame_paths, scenes), then the last frame
\* once more
EditList(paths, sc) ==
    EditList_NoRepeat(paths, sc)
        \o (IF paths # <<>> /\ sc # <<>>
            THEN <<FileLine(paths[Len(paths)])>>
            ELSE <<>>)

\* lines 75 to 80 of create_memory_video left out
CutToShorter_Uncut(seq, paths, sc) == seq

\* lines 75 to 80 of create_memory_video: frame_paths[:min_count],
\* scenes[:min_count]
CutToShorter(seq, paths, sc) ==
    IF Len(paths) # Len(sc)
    THEN Take(seq, Min(Len(paths), Len(sc)))
    ELSE seq

\* the encoder taken to have made the video however it ended
video_created_Always(how) == TRUE

\* what _create_video_with_transitions returns when the encoder has ended
video_created(how) == how = "ok"

\* how the encoder ends: exit status 0, another exit status, the timeout
\* of 120 seconds, another exception
EncoderOutcomes == {"ok", "nonzero", "timeout", "raises"}

\* how generate_presigned_url ends: a URL, None after a ClientError,
\* another exception
UrlOutcomes == {"url", "client_error", "raises"}

\* create_memory_video(frame_paths, scenes) is called by session r, the
\* temporary directory holding files, and runs up to the start of the
\* encoder
create_memory_video_on(files, r, paths, sc) ==
    /\ asm_pc[r] = "idle"
    /\ asm_args' = [asm_args EXCEPT ![r] = [frame_paths |-> paths, scenes |-> sc]]
    /\ asm_result' = [asm_result EXCEPT ![r] = NoUrl]
    /\ IF paths = <<>>
       THEN /\ asm_pc' = [asm_pc EXCEPT ![r] = "returned"]
            /\ asm_steps' = [asm_steps EXCEPT ![r] = NoSteps]
            /\ asm_wrote' = [asm_wrote EXCEPT ![r] = {}]
            /\ asm_calls' = [asm_calls EXCEPT ![r] = NoCalls]
            /\ asm_frames' = [asm_frames EXCEPT ![r] = <<>>]
            /\ asm_scenes' = [asm_scenes EXCEPT ![r] = <<>>]
            /\ asm_list' = [asm_list EXCEPT ![r] = <<>>]
            /\ tmp' = files
            /\ UNCHANGED input_list
       ELSE LET cut_frames == CutToShorter(paths, paths, sc)
                cut_scenes == CutToShorter(sc, paths, sc)
            IN /\ asm_frames' = [asm_frames EXCEPT ![r] = cut_frames]
               /\ asm_scenes' = [asm_scenes EXCEPT ![r] = cut_scenes]
               /\ \/ /\ tmp' = WriteFile(NewOutputName(files, r), InputListPath, r)
                     /\ input_list' = EditList(cut_frames, cut_scenes)
                     /\ asm_list' = [asm_list EXCEPT ![r] =
                                         EditList(cut_frames, cut_scenes)]
                     /\ asm_calls' = [asm_calls EXCEPT ![r] =
                                          [encoder |-> 1, upload |-> 0, url |-> 0]]
                     /\ asm_pc' = [asm_pc EXCEPT ![r] = "encoding"]
                     /\ asm_steps' = [asm_steps EXCEPT ![r] = NoSteps]
                     /\ asm_wrote' = [asm_wrote EXCEPT ![r] = {InputListPath}]
                  \* _create_ffmpeg_input_list fails, before or after it
                  \* has opened the file, and None is returned
                  \/ /\ \E opened \in BOOLEAN :
                            /\ tmp' = IF opened
                                      THEN WriteFile(NewOutputName(files, r),
                                                     InputListPath, r)
                                      ELSE NewOutputName(files, r)
                            /\ input_list' = IF opened THEN <<>> ELSE input_list
                            /\ asm_wrote' = [asm_wrote EXCEPT ![r] =
                                                 IF opened THEN {InputListPath}
                                                 ELSE {}]
                     /\ asm_list' = [asm_list EXCEPT ![r] = <<>>]
                     /\ asm_calls' = [asm_calls EXCEPT ![r] = NoCalls]
                     /\ asm_steps' = [asm_steps EXCEPT ![r] =
                                          [NoSteps EXCEPT !.encoder = "no_list"]]
                     /\ asm_pc' = [asm_pc EXCEPT ![r] = "returned"]

\* create_memory_video(frame_paths, scenes), called by session r
create_memory_video(r, paths, sc) == create_memory_video_on(tmp, r, paths, sc)

\* the encoder ends.  With exit status 0 it has made the output file, the
\* input list is cleaned up and the upload starts; with another exit
\* status the input list is cleaned up and None is returned; with an
\* exception None is returned.  An encoder that failed may have made its
\* output file.
EncoderEnds(r) ==
    /\ asm_pc[r] = "encoding"
    /\ \E how \in EncoderOutcomes, made \in BOOLEAN :
           LET listed == IF how \in {"ok", "nonzero"}
                         THEN cleanup_temp_file(tmp, InputListPath)
                         ELSE tmp
           IN
           /\ how = "ok" => made
           /\ asm_steps' = [asm_steps EXCEPT ![r].encoder = how]
           /\ tmp' = IF made THEN WriteFile(listed, OutputPath(r), r) ELSE listed
           /\ asm_wrote' = [asm_wrote EXCEPT ![r] =
                                IF made THEN @ \cup {OutputPath(r)} ELSE @]
           /\ input_list' = IF how \in {"ok", "nonzero"} THEN <<>> ELSE input_list
           /\ IF video_created(how)
              THEN /\ asm_pc' = [asm_pc EXCEPT ![r] = "uploading"]
                   /\ asm_calls' = [asm_calls EXCEPT ![r].upload = @ + 1]
              ELSE /\ asm_pc' = [asm_pc EXCEPT ![r] = "returned"]
                   /\ UNCHANGED asm_calls
    /\ UNCHANGED <<asm_args, asm_frames, asm_scenes, asm_result, asm_list,
                   AssemblerRest>>

\* put_object ends: the request of the URL starts, or the output file is
\* cleaned up and None is returned
UploadEnds(r) ==
    /\ asm_pc[r] = "uploading"
    /\ \E upload_success \in BOOLEAN :
           IF upload_success
           THEN /\ asm_steps' = [asm_steps EXCEPT ![r].upload = "ok"]
                /\ asm_calls' = [asm_calls EXCEPT ![r].url = @ + 1]
                /\ asm_pc' = [asm_pc EXCEPT ![r] = "url"]
                /\ UNCHANGED tmp
           ELSE /\ asm_steps' = [asm_steps EXCEPT ![r].upload = "failed"]
                /\ tmp' = cleanup_temp_file(tmp, OutputPath(r))
                /\ asm_pc' = [asm_pc EXCEPT ![r] = "returned"]
                /\ UNCHANGED asm_calls
    /\ UNCHANGED <<input_list, asm_args, asm_frames, asm_scenes, asm_result,
                   asm_list, asm_wrote, AssemblerRest>>

\* generate_presigned_url ends: with a URL or with None the output file is
\* cleaned up and that is returned; with an exception None is returned
UrlEnds(r) ==
    /\ asm_pc[r] = "url"
    /\ \E how \in UrlOutcomes :
           /\ asm_steps' = [asm_steps EXCEPT ![r].url = how]
           /\ asm_result' = [asm_result EXCEPT ![r] =
                                IF how = "url" THEN Url(r) ELSE NoUrl]
           /\ tmp' = IF how = "raises" THEN tmp
                     ELSE cleanup_temp_file(tmp, OutputPath(r))
    /\ asm_pc' = [asm_pc EXCEPT ![r] = "returned"]
    /\ UNCHANGED <<input_list, asm_args, asm_frames, asm_scenes, asm_list,
                   asm_calls, asm_wrote, AssemblerRest>>

\* frame paths and scenes to call create_memory_video with
FramePaths(f) == [i \in 1..f |-> TempPath(i - 1)]

TestScenes(n) ==
    [i \in 1..n |-> Scene(Fixed("scene"), default_scene_duration + i, "test")]

\* a caller calls create_memory_video with f frame paths and n scenes
CallCreateMemoryVideo ==
    /\ \E f \in 0..MaxFrames, n \in 0..MaxFrames :
           create_memory_video(1, FramePaths(f), TestScenes(n))
    /\ UNCHANGED AssemblerRest

\* the caller has the result
TakeResult ==
    /\ asm_pc[1] = "returned"
    /\ asm_pc' = [asm_pc EXCEPT ![1] = "idle"]
    /\ UNCHANGED <<tmpVars, asm_args, asm_frames, asm_scenes, asm_result,
                   asm_list, asm_steps, asm_calls, asm_wrote, AssemblerRest>>

AssemblerNext ==
    \/ CallCreateMemoryVideo
    \/ EncoderEnds(1)
    \/ UploadEnds(1)
    \/ UrlEnds(1)
    \/ TakeResult

SpecAssembler == Init /\ [][AssemblerNext]_vars

(***************************************************************************)
(* Claims about create_memory_video under SpecAssembler.                   *)
(***************************************************************************)

\* a step of the call of session r has failed
StepFailed(r) ==
    \/ asm_steps[r].encoder \in {"no_list", "nonzero", "timeout", "raises"}
    \/ asm_steps[r].upload = "failed"
    \/ asm_steps[r].url \in {"client_error", "raises"}

\* C16: create_memory_video returns a URL only if the encoder ended with
\* exit status 0, the upload then succeeded and the URL request then gave
\* a URL; when a step has failed the call has returned, with None; the
\* encoder is started at most once in a call; and after the encoder failed
\* or timed out no upload and no URL request is started.
AssemblerFailClosed ==
    \A r \in Sessions :
        /\ asm_result[r] # NoUrl
               => /\ asm_steps[r].encoder = "ok"
                  /\ asm_steps[r].upload = "ok"
                  /\ asm_steps[r].url = "url"
        /\ StepFailed(r)
               => (asm_pc[r] \in {"returned", "idle"} /\ asm_result[r] = NoUrl)
        /\ asm_calls[r].encoder <= 1
        /\ asm_steps[r].encoder \notin {"none", "ok"}
               => (asm_calls[r].upload = 0 /\ asm_calls[r].url = 0)

\* C16 witness: a call whose encoder ended with another exit status than 0
\* has returned None, and a call has returned a URL.
AssemblerFailClosedWitness ==
    \E r \in Sessions :
        /\ asm_pc[r] = "returned"
        /\ asm_steps[r].encoder = "nonzero"
        /\ asm_calls[r].encoder = 1
        /\ asm_result[r] = NoUrl

\* C17: when create_memory_video has returned, however its steps ended,
\* neither the input list file nor the output file of the call is there.
AssemblerTempFilesGone ==
    \A r \in Sessions :
        asm_pc[r] = "returned"
            => (~Exists(tmp, InputListPath) /\ ~Exists(tmp, OutputPath(r)))

\* C18: create_memory_video called with f frame paths and s scenes, f and
\* s different and positive, goes on with the first min(f, s) frame paths
\* and the first min(f, s) scenes, and pairs them in order in the input
\* list, which ends with the last of these frame paths.
MismatchTruncates ==
    \A r \in Sessions :
        LET f == Len(asm_args[r].frame_paths)
            n == Len(asm_args[r].scenes)
            m == Min(f, n)
        IN (asm_pc[r] = "encoding" /\ f # n /\ f > 0 /\ n > 0)
               => /\ asm_frames[r] = Take(asm_args[r].frame_paths, m)
                  /\ asm_scenes[r] = Take(asm_args[r].scenes, m)
                  /\ Len(asm_list[r]) = 2 * m + 1
                  /\ \A i \in 1..m :
                         /\ asm_list[r][2 * i - 1].file = asm_args[r].frame_paths[i]
                         /\ asm_list[r][2 * i].duration = asm_args[r].scenes[i].duration
                  /\ asm_list[r][2 * m + 1].file = asm_args[r].frame_paths[m]

\* C18 witness: a call with 4 frame paths and 3 scenes is encoding 3 frames
\* with 3 scenes.
MismatchTruncatesWitness ==
    \E r \in Sessions :
        /\ asm_pc[r] = "encoding"
        /\ Len(asm_args[r].frame_paths) = 4
        /\ Len(asm_args[r].scenes) = 3
        /\ Len(asm_frames[r]) = 3
        /\ Len(asm_scenes[r]) = 3

\* the positions of the lines of an edit list that name a file, and of
\* those that give a duration
FileEntries(list) == {k \in 1..Len(list) : DOMAIN list[k] = {"file"}}
DurationEntries(list) == {k \in 1..Len(list) : DOMAIN list[k] = {"duration"}}

\* C25: for n >= 1 paired frames and scenes, the edit list written for the
\* encoder holds, in order, for each pair the line of the frame and then
\* the line of the duration of its scene, and at the end the line of the
\* last frame once more with no duration behind it: n + 1 file lines and
\* n duration lines.
EditListShape ==
    \A r \in Sessions :
        LET n == Len(asm_frames[r]) IN
        (asm_pc[r] = "encoding" /\ n >= 1 /\ Len(asm_scenes[r]) = n)
            => /\ Len(asm_list[r]) = 2 * n + 1
               /\ \A i \in 1..n :
                      /\ asm_list[r][2 * i - 1] = [file |-> Escape(asm_frames[r][i])]
                      /\ asm_list[r][2 * i] = [duration |-> asm_scenes[r][i].duration]
               /\ asm_list[r][2 * n + 1] = [file |-> Escape(asm_frames[r][n])]
               /\ Cardinality(FileEntries(asm_list[r])) = n + 1
               /\ Cardinality(DurationEntries(asm_list[r])) = n
               /\ input_list = asm_list[r]

\* C25 witness: the edit list of 2 frames and 2 scenes has 5 lines, the
\* last one naming the second frame.
EditListShapeWitness ==
    \E r \in Sessions :
        /\ asm_pc[r] = "encoding"
        /\ Len(asm_frames[r]) = 2
        /\ Len(asm_scenes[r]) = 2
        /\ Len(asm_list[r]) = 5
        /\ asm_list[r][5] = [file |-> TempPath(1)]
        /\ asm_list[r][4] = [duration |-> default_scene_duration + 2]

(***************************************************************************)
(* ReceiveUserMessage._handle_video_generation_request.  The sessions of   *)
(* one process run on one event loop: what a run does between two awaits   *)
(* is one step, and the runs of different sessions take their steps in     *)
(* any order.  A session handles one frame at a time, so a photo and a     *)
(* run of the same session do not overlap.                                 *)
(***************************************************************************)

\* the transcripts of the sessions: an empty one, and one with two
\* emotional moments and a theme
RunTranscripts ==
    { <<>>,
      << <<"i", "felt", "so", "happy", "today">>,
         <<"we", "enjoyed", "the", "park">> >> }

\* how the model call for the photo of a session ends
RunModelOutcomes ==
    {outcome \in ModelOutcomes :
        \/ outcome.kind = "raises"
        \/ outcome.kind = "text" /\ outcome.text = <<"a", "happy", "smile">>}

\* the responses the caption model gives to a run
RunResponses == { <<>>, << <<"calm", "sea">> >> }

\* the check of the run left out
NothingToGenerate_Never(images, analyses) == FALSE

\* not latest_image or not latest_analysis
NothingToGenerate(images, analyses) == images = <<>> \/ analyses = <<>>

\* the check of the frames left out
FramesMissing_Never(paths) == FALSE

\* not frame_paths
FramesMissing(paths) == paths = <<>>

\* get_latest_analysis()["response"]
LatestResponse(analyses) ==
    IF analyses = <<>> THEN NoneResponse ELSE analyses[Len(analyses)].response

\* session r writes the files at the paths
WriteFiles(files, paths, r) ==
    [q \in DOMAIN files \cup paths |-> IF q \in paths THEN r ELSE files[q]]

\* cleanup_temp_frames(frame_paths), on the temporary directory of the
\* process
RemoveFrames(files, paths) ==
    [q \in DOMAIN files \ {paths[k] : k \in 1..Len(paths)} |-> files[q]]

\* the first photo of session r: _handle_photo_download from the download
\* to the stored analysis
PhotoArrives(r) ==
    /\ g_pc[r] = "idle"
    /\ an_pc[r] = "idle"
    /\ downloaded_images[r] = <<>>
    /\ \E outcome \in RunModelOutcomes :
           /\ an_returned' = [an_returned EXCEPT ![r] =
                                 [kind |-> outcome.kind,
                                  response |-> analyze_and_respond(outcome)]]
           /\ image_analyses' =
                  [image_analyses EXCEPT ![r] =
                      Append(@, AnalysisData("photo_a.jpg", analyze_and_respond(outcome)))]
    /\ downloaded_images' =
           [downloaded_images EXCEPT ![r] = Append(@, ImageData("photo_a.jpg", Len(@) + 1))]
    /\ model_calls' = [model_calls EXCEPT ![r] = 1]
    /\ an_key' = [an_key EXCEPT ![r] = "photo_a.jpg"]
    /\ UNCHANGED <<an_pc, AnalysisRest>>

\* a client message asks for the video, the first time in session r: the
\* check of image and analysis;
\* then either the message that there is nothing to make a video of, or
\* the progress message, the storyboard and the call of the caption model
RequestVideo(r) ==
    /\ g_pc[r] = "idle"
    /\ an_pc[r] = "idle"
    /\ asm_pc[r] = "idle"
    /\ g_had' = [g_had EXCEPT ![r] = [image |-> downloaded_images[r] # <<>>,
                                      analysis |-> image_analyses[r] # <<>>]]
    /\ g_frames' = [g_frames EXCEPT ![r] = <<>>]
    /\ g_written' = [g_written EXCEPT ![r] = {}]
    /\ g_failed_at' = [g_failed_at EXCEPT ![r] = 0]
    /\ IF NothingToGenerate(downloaded_images[r], image_analyses[r])
       THEN /\ g_outcomes' = [g_outcomes EXCEPT ![r] = <<"nothing_to_generate">>]
            /\ g_stages' = [g_stages EXCEPT ![r] = <<>>]
            /\ g_scenes' = [g_scenes EXCEPT ![r] = <<>>]
            /\ g_pc' = [g_pc EXCEPT ![r] = "done"]
       ELSE /\ g_outcomes' = [g_outcomes EXCEPT ![r] = <<>>]
            /\ \E t \in RunTranscripts :
                   g_scenes' = [g_scenes EXCEPT ![r] =
                       generate_from_conversation(t, LatestResponse(image_analyses[r]))]
            /\ g_stages' = [g_stages EXCEPT ![r] = <<"storyboard", "captions">>]
            /\ g_pc' = [g_pc EXCEPT ![r] = "captions"]
    /\ UNCHANGED <<ComponentVars, analysisVars, tmpVars, asmVars>>

\* the caption call returns; create_captioned_frames makes the frames, or
\* fails at caption k (at _prepare_base_image for k = 0) and returns [];
\* then either the message that the frames failed, or create_memory_video
\* up to the start of the encoder
RenderAndAssemble(r) ==
    /\ g_pc[r] = "captions"
    /\ \E text \in RunResponses, raised \in BOOLEAN,
          k \in 0..(Len(g_scenes[r]) + 1), made \in BOOLEAN :
           LET caps == IF raised THEN get_fallback_captions(Len(g_scenes[r]))
                       ELSE parse_caption_response(text, Len(g_scenes[r]))
               failed == k <= Len(caps)
               done_frames == IF failed
                              THEN (IF k = 0 THEN 0 ELSE k - 1)
                              ELSE Len(caps)
               files == {TempPath(i - 1) : i \in 1..done_frames}
                            \cup (IF failed /\ made THEN {TempPath(k - 1)} ELSE {})
               result == IF failed THEN OnException(FramePaths(done_frames))
                         ELSE FramePaths(done_frames)
           IN
           /\ raised => text = <<>>
           /\ made => (failed /\ k > 0)
           /\ g_written' = [g_written EXCEPT ![r] = files]
           /\ g_failed_at' = [g_failed_at EXCEPT ![r] =
                                  IF ~failed THEN 0 ELSE IF k = 0 THEN -1 ELSE k]
           /\ g_frames' = [g_frames EXCEPT ![r] = result]
           /\ IF FramesMissing(result)
              THEN /\ tmp' = WriteFiles(tmp, files, r)
                   /\ g_stages' = [g_stages EXCEPT ![r] = Append(@, "frames")]
                   /\ g_outcomes' = [g_outcomes EXCEPT ![r] = Append(@, "frames_failed")]
                   /\ g_pc' = [g_pc EXCEPT ![r] = "done"]
                   /\ UNCHANGED <<input_list, asmVars>>
              ELSE /\ g_stages' = [g_stages EXCEPT ![r] = @ \o <<"frames", "assembly">>]
                   /\ g_pc' = [g_pc EXCEPT ![r] = "assembling"]
                   /\ UNCHANGED g_outcomes
                   /\ \E files_then \in {WriteFiles(tmp, files, r)} :
                          create_memory_video_on(files_then, r, result, g_scenes[r])
    /\ UNCHANGED <<g_scenes, g_had, ComponentVars, analysisVars>>

\* create_memory_video has returned: cleanup_temp_frames(frame_paths), and
\* the message with the URL or the message that the video failed
AssemblyReturns(r) ==
    /\ g_pc[r] = "assembling"
    /\ asm_pc[r] = "returned"
    /\ tmp' = RemoveFrames(tmp, g_frames[r])
    /\ g_outcomes' = [g_outcomes EXCEPT ![r] =
                         Append(@, IF asm_result[r] # NoUrl THEN "success"
                                   ELSE "video_failed")]
    /\ g_pc' = [g_pc EXCEPT ![r] = "done"]
    /\ asm_pc' = [asm_pc EXCEPT ![r] = "idle"]
    /\ UNCHANGED <<input_list, asm_args, asm_frames, asm_scenes, asm_result,
                   asm_list, asm_steps, asm_calls, asm_wrote,
                   g_scenes, g_frames, g_had, g_stages, g_written, g_failed_at,
                   ComponentVars, analysisVars>>

\* the client of session r disconnects and task.cancel() cancels the run
\* at the await it is at: CancelledError is no Exception, no except clause
\* catches it, and the session is over
Cancel(r) ==
    /\ \/ g_pc[r] = "captions"
       \/ g_pc[r] = "assembling" /\ asm_pc[r] \in {"encoding", "uploading", "url"}
    /\ g_pc' = [g_pc EXCEPT ![r] = "cancelled"]
    /\ asm_pc' = [asm_pc EXCEPT ![r] =
                     IF g_pc[r] = "assembling" THEN "cancelled" ELSE @]
    /\ UNCHANGED <<tmpVars, asm_args, asm_frames, asm_scenes, asm_result,
                   asm_list, asm_steps, asm_calls, asm_wrote,
                   g_scenes, g_frames, g_had, g_stages, g_outcomes, g_written,
                   g_failed_at, ComponentVars, analysisVars>>

PipelineNext ==
    \E r \in Sessions :
        \/ PhotoArrives(r)
        \/ RequestVideo(r)
        \/ RenderAndAssemble(r)
        \/ EncoderEnds(r)
        \/ UploadEnds(r)
        \/ UrlEnds(r)
        \/ AssemblyReturns(r)
        \/ Cancel(r)

SpecPipeline == Init /\ [][PipelineNext]_vars

(***************************************************************************)
(* Claims about the runs under SpecPipeline.                               *)
(***************************************************************************)

\* the files the run of session r has written
RunFiles(r) ==
    g_written[r]
        \cup (IF \E i \in 1..Len(g_stages[r]) : g_stages[r][i] = "assembly"
              THEN asm_wrote[r] ELSE {})

\* the files the run of session r has written that are still there as it
\* wrote them
Remaining(r) == {p \in RunFiles(r) : Exists(tmp, p) /\ tmp[p] = r}

\* C11: when the renderer of a run failed after it had written a frame
\* file and the run has ended, none of the frame files it wrote is left.
RendererFailureCleansUp ==
    \A r \in Sessions :
        (g_pc[r] = "done" /\ g_failed_at[r] # 0 /\ g_written[r] # {})
            => Remaining(r) = {}

\* C12: when the encoder of a run failed and the run has ended, the run
\* has no URL and none of the files it wrote is left: no frame file, no
\* input list, no output file.
EncoderFailureLeavesNothing ==
    \A r \in Sessions :
        (g_pc[r] = "done" /\ g_outcomes[r] = <<"video_failed">>
             /\ asm_steps[r].encoder \in {"nonzero", "timeout", "raises"})
            => (asm_result[r] = NoUrl /\ Remaining(r) = {})

\* C13: when a run was cancelled, none of the files it wrote is left.
CancellationCleansUp ==
    \A r \in Sessions : g_pc[r] = "cancelled" => Remaining(r) = {}

\* C14: a run reports that there is nothing to make a video of exactly
\* when there was no image or no analysis as it began, and then it has
\* started no stage, written no file and called neither the caption model
\* nor create_memory_video.
PreconditionChecked ==
    \A r \in Sessions :
        g_pc[r] # "idle"
            => /\ (~g_had[r].image \/ ~g_had[r].analysis)
                      <=> (g_outcomes[r] = <<"nothing_to_generate">>)
               /\ (g_had[r].image /\ g_had[r].analysis)
                      => \A i \in 1..Len(g_outcomes[r]) :
                             g_outcomes[r][i] # "nothing_to_generate"
               /\ (~g_had[r].image \/ ~g_had[r].analysis)
                      => /\ g_pc[r] = "done"
                         /\ g_stages[r] = <<>>
                         /\ g_scenes[r] = <<>>
                         /\ g_written[r] = {}
                         /\ asm_pc[r] = "idle"
                         /\ asm_calls[r] = NoCalls
                         /\ asm_wrote[r] = {}

\* C14 witness: a session without a photo was told that there is nothing
\* to make a video of, and a session with a photo has its video.
PreconditionCheckedWitness ==
    \E r, q \in Sessions :
        /\ g_pc[r] = "done"
        /\ ~g_had[r].image
        /\ g_outcomes[r] = <<"nothing_to_generate">>
        /\ g_pc[q] = "done"
        /\ g_had[q].image
        /\ g_outcomes[q] = <<"success">>

\* the stages in their order
StageOrder == <<"storyboard", "captions", "frames", "assembly">>

\* C15: a run that is not cancelled reports nothing while it runs and one
\* outcome when it has ended: the URL, nothing to make a video of, the
\* frames failed or the video failed; the stages it has started are the
\* first ones of storyboard, captions, frames, assembly, in this order;
\* after the renderer has returned no frames the assembly is not started,
\* and the outcome names the frames; after create_memory_video has
\* returned None the outcome names the video.
OneOutcomeInOrder ==
    \A r \in Sessions :
        /\ g_pc[r] \in {"idle", "captions", "assembling"} => g_outcomes[r] = <<>>
        /\ g_pc[r] = "done"
               => /\ Len(g_outcomes[r]) = 1
                  /\ g_outcomes[r][1] \in {"success", "nothing_to_generate",
                                           "frames_failed", "video_failed"}
        /\ g_stages[r] = Take(StageOrder, Len(g_stages[r]))
        /\ g_failed_at[r] # 0
               => /\ g_pc[r] = "done"
                  /\ g_outcomes[r] = <<"frames_failed">>
                  /\ g_stages[r] = Take(StageOrder, 3)
                  /\ asm_pc[r] = "idle"
                  /\ asm_calls[r] = NoCalls
        /\ g_outcomes[r] = <<"frames_failed">> => g_failed_at[r] # 0
        /\ g_outcomes[r] = <<"video_failed">>
               => (g_stages[r] = StageOrder /\ asm_result[r] = NoUrl)
        /\ g_outcomes[r] = <<"success">>
               => (g_stages[r] = StageOrder /\ asm_result[r] = Url(r))
        /\ g_outcomes[r] = <<"nothing_to_generate">> => g_stages[r] = <<>>

\* C15 witness: the renderer of a run failed at its second caption, the
\* run has ended with the one outcome that the frames failed and has not
\* started the assembly, and the other run has ended with a failed video.
OneOutcomeInOrderWitness ==
    \E r, q \in Sessions :
        /\ g_pc[r] = "done"
        /\ g_failed_at[r] = 2
        /\ g_outcomes[r] = <<"frames_failed">>
        /\ g_pc[q] = "done"
        /\ g_outcomes[q] = <<"video_failed">>

\* C19: two runs that are in flight at the same time have written no file
\* at the same path, and each has its files as it wrote them.
TempFilesPrivate ==
    \A r, q \in Sessions :
        (r # q /\ g_pc[r] = "assembling" /\ g_pc[q] = "assembling")
            => /\ RunFiles(r) \cap RunFiles(q) = {}
               /\ Remaining(r) = RunFiles(r)

====
